---- MODULE Spec2Model ----
(***************************************************************************)
(* A model of the deprecat package: the classic decorator factory          *)
(* (deprecat/classic.py), the adapters that build the deprecation messages *)
(* (ClassicAdapter, SphinxAdapter) and the wrappers that emit them through *)
(* the interpreter's warnings module before delegating to the decorated    *)
(* function or class.                                                      *)
(*                                                                         *)
(* Text.  A Python string is a sequence of tokens: a maximal run of        *)
(* letters is one token, every other character is a token of its own (the  *)
(* backtick is written "<backtick>")                                       *)
(* ("Call to x." is <<"Call", " ", "to", " ", "x", ".">>).  The empty      *)
(* string is <<>>.  Substring containment is containment of a contiguous   *)
(* run of tokens.                                                          *)
(*                                                                         *)
(* None.  An optional value is a sequence of length 0 (None) or 1.         *)
(***************************************************************************)
EXTENDS Integers, Sequences, FiniteSets, TLC

VARIABLES
    filters,        \* warnings.filters: the process-wide filter list, first match wins
    onceregistry,   \* warnings.onceregistry: (text, category) already shown under "once"
    registry,       \* the caller module's __warningregistry__ (dropped when the filters change)
    log,            \* every warning that passed the filters, in order (showwarning)
    entities,       \* the decorated entities of the imported module, by name
    decor,          \* what the decoration statement did: not yet run, returned, or raised
    last,           \* the outcome of the most recent call of a decorated entity
    ncalls,         \* number of calls made so far
    threads         \* the calls of foo in progress on the threads of the program

vars == <<filters, onceregistry, registry, log, entities, decor, last, ncalls, threads>>

-----------------------------------------------------------------------------
(* Bounds *)

MaxCalls == 2

-----------------------------------------------------------------------------
(* Optional values and small helpers *)

None == <<>>
Some(x) == <<x>>
IsNone(o) == o = <<>>
Val(o) == o[1]

Range(s) == {s[i] : i \in DOMAIN s}

\* s occurs in t as a contiguous run of tokens (Python: s in t)
Contains(t, s) ==
    \E i \in 0..(Len(t) - Len(s)) : SubSeq(t, i + 1, i + Len(s)) = s

\* every enumeration of the finite set S without repetition (iteration orders of a set)
Orders(S) ==
    {o \in [1..Cardinality(S) -> S] : \A i, j \in 1..Cardinality(S) : o[i] = o[j] => i = j}

\* The keyword arguments given to the factory are a function from option names
\* to values; Get is dict.get(key, default) on it.
Get(d, k, default) == IF k \in DOMAIN d THEN d[k] ELSE default

\* Every other dict (the keyword arguments of a call, deprecated_args and its
\* sub-records) is the set of its (key, value) pairs.
Keys(d) == {p[1] : p \in d}
Item(d, k) == (CHOOSE p \in d : p[1] = k)[2]
DGet(d, k, default) == IF k \in Keys(d) THEN Item(d, k) ELSE default

-----------------------------------------------------------------------------
(* str.format: every placeholder token of fmt is replaced by the text bound  *)
(* to it; all other tokens are kept.                                         *)

Placeholders == {"{name}", "{reason}", "{version}", "{remove_version}"}

RECURSIVE Format(_, _)
Format(fmt, env) ==
    IF fmt = <<>> THEN <<>>
    ELSE (IF Head(fmt) \in Placeholders THEN env[Head(fmt)] ELSE <<Head(fmt)>>)
         \o Format(Tail(fmt), env)

-----------------------------------------------------------------------------
(* The warnings module of the interpreter, as used by classic.py.            *)
(* All modelled calls come from one call site, so a registry key is          *)
(* (text, category, "line") and the "module" alternative key is              *)
(* (text, category, "0").                                                    *)

FilterActions == {"error", "ignore", "always", "default", "module", "once"}

Categories == {"DeprecationWarning", "MyDeprecationWarning"}

\* issubclass(c, f) for the categories of the model
issubclass(c, f) ==
    \/ c = f
    \/ f = "Warning"
    \/ (c = "MyDeprecationWarning" /\ f = "DeprecationWarning")

\* the action of the first filter that matches the category; defaultaction otherwise
RECURSIVE FilterAction(_, _)
FilterAction(fs, category) ==
    IF fs = <<>> THEN "default"
    ELSE IF issubclass(category, Head(fs).category) THEN Head(fs).action
    ELSE FilterAction(Tail(fs), category)

\* warnings.simplefilter(action, category): the item goes to the front, an equal
\* item further down is removed
simplefilter(fs, action, category) ==
    LET item == [action |-> action, category |-> category]
    IN <<item>> \o SelectSeq(fs, LAMBDA f : f # item)

\* The state of the warnings module threaded through one call.
\*   raised: None, or Some(exception) once a warning was turned into an error
\*   attempts: every warnings.warn call made, with the filter action that decided it
WState == [filters |-> filters, once |-> onceregistry, registry |-> registry,
           log |-> log, raised |-> None, attempts |-> <<>>]

\* a faulty warn that shows every warning whatever the filters and registries
\* say: C10_OnceAcrossCalls fails with it
warn_shown(W, text, category) ==
    [W EXCEPT !.attempts = Append(@, [text |-> text, category |-> category,
                                      action |-> "always"]),
              !.log = Append(@, [text |-> text, category |-> category])]

\* warnings.warn(message, category=category): warn_explicit for the one call site
warn(W, text, category) ==
    LET key == <<text, category, "line">>
        altkey == <<text, category, "0">>
        oncekey == <<text, category>>
        action == FilterAction(W.filters, category)
        w == [text |-> text, category |-> category]
        seen == [W EXCEPT !.attempts = Append(@, [text |-> text, category |-> category,
                                                   action |-> "registry"])]
        A == [W EXCEPT !.attempts = Append(@, [text |-> text, category |-> category,
                                                action |-> action])]
        show(X) == [X EXCEPT !.log = Append(@, w)]
    IN IF key \in W.registry THEN seen
       ELSE CASE action = "ignore" -> A
              [] action = "error" -> [A EXCEPT !.raised = Some([type |-> category, text |-> text])]
              [] action = "once" ->
                    IF oncekey \in W.once
                    THEN [A EXCEPT !.registry = @ \cup {key}]
                    ELSE show([A EXCEPT !.registry = @ \cup {key}, !.once = @ \cup {oncekey}])
              [] action = "always" -> show(A)
              [] action = "module" ->
                    IF altkey \in W.registry
                    THEN [A EXCEPT !.registry = @ \cup {key}]
                    ELSE show([A EXCEPT !.registry = @ \cup {key, altkey}])
              [] action = "default" -> show([A EXCEPT !.registry = @ \cup {key}])

\* with warnings.catch_warnings(): __enter__ keeps the filter list and works on a
\* copy; changing the filter list invalidates every __warningregistry__
catch_warnings_enter(W) == [W EXCEPT !.registry = {}]

\* a faulty __exit__ that leaves the filters of the block in place:
\* C7_OverrideIsScoped fails with it
catch_warnings_exit_keep(W, saved) == [W EXCEPT !.registry = {}]

\* __exit__ puts the saved filter list back (also when the body raised)
catch_warnings_exit(W, saved) == [W EXCEPT !.filters = saved, !.registry = {}]

\* a faulty emission that does not install the action: C9_IgnoreRecordsNothing
\* fails with it
warn_without_action(W, action, text, category) == warn(W, text, category)

\* with warnings.catch_warnings(): simplefilter(action, category); warn(...)
warn_with_action(W, action, text, category) ==
    LET saved == W.filters
        W1 == catch_warnings_enter(W)
        W2 == [W1 EXCEPT !.filters = simplefilter(@, action, category), !.registry = {}]
        W3 == warn(W2, text, category)
    IN catch_warnings_exit(W3, saved)

-----------------------------------------------------------------------------
(* ClassicAdapter (classic.py) *)

NoAction == "None"

\* "if action:" is false for None and for the empty string
Truthy(action) == action \notin {NoAction, ""}

\* ClassicAdapter.__init__: stores its arguments; nothing is validated.
\* argstodeprecate is the attribute get_deprecated_msg assigns on every call.
ClassicAdapter_init(reason, version, remove_version, action, deprecated_args, category) ==
    [cls |-> "ClassicAdapter", directive |-> "",
     reason |-> reason, version |-> version, remove_version |-> remove_version,
     action |-> action, category |-> category, deprecated_args |-> deprecated_args,
     argstodeprecate |-> {}]

\* a faulty template choice that tells no shapes apart: C1_OneWarningPerCall
\* fails with it
ShapeFmt_function(wrappedIsClass, instance) ==
    <<"Call", " ", "to", " ", "deprecated", " ", "function", " ", "(", "or", " ",
      "staticmethod", ")", " ", "{name}", ".">>

\* the template chosen from the call shape (lines 95-104); instance is "None",
\* "class" (inspect.isclass(instance)) or "object"
ShapeFmt(wrappedIsClass, instance) ==
    IF instance = "None"
    THEN IF wrappedIsClass
         THEN <<"Call", " ", "to", " ", "deprecated", " ", "class", " ", "{name}", ".">>
         ELSE <<"Call", " ", "to", " ", "deprecated", " ", "function", " ", "(", "or", " ",
                "staticmethod", ")", " ", "{name}", ".">>
    ELSE IF instance = "class"
         THEN <<"Call", " ", "to", " ", "deprecated", " ", "class", " ", "method", " ",
                "{name}", ".">>
         ELSE <<"Call", " ", "to", " ", "deprecated", " ", "method", " ", "{name}", ".">>

ReasonClause == <<" ", "(", "{reason}", ")">>
VersionClause ==
    <<"\n", "-", "-", " ", "Deprecated", " ", "since", " ", "version", " ", "{version}", ".">>
RemoveClause ==
    <<"\n", "-", "-", " ", "Will", " ", "be", " ", "removed", " ", "in", " ", "version", " ",
      "{remove_version}", ".">>
ParamFmt == <<"Call", " ", "to", " ", "deprecated", " ", "Parameter", " ", "{name}", ".">>
ParamVersionClause ==
    <<"\n", "-", "-", " ", "Deprecated", " ", "since", " ", "v", "{version}", ".">>

\* a faulty entity message that appends the three clauses whether or not their
\* fields are empty: C2_EntityMessageFormat fails with it
EntityMsg_allClauses(self, wrapped, instance) ==
    <<[key |-> wrapped.name,
       message |-> Format(ShapeFmt(wrapped.type = "class", instance)
                              \o ReasonClause \o VersionClause \o RemoveClause,
                          [p \in Placeholders |->
                              CASE p = "{name}" -> <<wrapped.name>>
                                [] p = "{reason}" -> self.reason
                                [] p = "{version}" -> self.version
                                [] p = "{remove_version}" -> self.remove_version])]>>

\* lines 107-117: the message of the entity, as a one-entry dict keyed by its name
EntityMsg(self, wrapped, instance) ==
    LET fmt == ShapeFmt(wrapped.type = "class", instance)
                   \o (IF self.reason # <<>> THEN ReasonClause ELSE <<>>)
                   \o (IF self.version # <<>> THEN VersionClause ELSE <<>>)
                   \o (IF self.remove_version # <<>> THEN RemoveClause ELSE <<>>)
        env == [p \in Placeholders |->
                   CASE p = "{name}" -> <<wrapped.name>>
                     [] p = "{reason}" -> self.reason
                     [] p = "{version}" -> self.version
                     [] p = "{remove_version}" -> self.remove_version]
    IN <<[key |-> wrapped.name, message |-> Format(fmt, env)]>>

\* lines 126-141: the message of one deprecated parameter, from its own sub-record;
\* a field counts when .get(field) is not None, that is when the key is present
ParamMsg(self, arg) ==
    LET rec == Item(Val(self.deprecated_args), arg)
        has(f) == f \in Keys(rec)
        fmt == ParamFmt
                   \o (IF has("reason") THEN ReasonClause ELSE <<>>)
                   \o (IF has("version") THEN ParamVersionClause ELSE <<>>)
                   \o (IF has("remove_version") THEN RemoveClause ELSE <<>>)
        env == [p \in Placeholders |->
                   CASE p = "{name}" -> <<arg>>
                     [] p = "{reason}" -> DGet(rec, "reason", <<>>)
                     [] p = "{version}" -> DGet(rec, "version", <<>>)
                     [] p = "{remove_version}" -> DGet(rec, "remove_version", <<>>)]
    IN [key |-> arg, message |-> Format(fmt, env)]

\* a faulty get_deprecated_msg that keeps only the message of the last
\* parameter it visits: C3_OneWarningPerUsedName fails with it
\* a get_deprecated_msg that falls back to the message of the entity when no
\* deprecated argument is used: C20_OneLevelPerConfiguration fails with it
ClassicAdapter_get_deprecated_msg_fallback(self, wrapped, instance, kwargs, order) ==
    IF IsNone(self.deprecated_args) \/ order = <<>>
    THEN [msg |-> Some(EntityMsg(self, wrapped, instance)),
          argstodeprecate |-> self.argstodeprecate]
    ELSE [msg |-> Some([i \in 1..Len(order) |-> ParamMsg(self, order[i])]),
          argstodeprecate |-> Keys(Val(self.deprecated_args)) \cap Keys(kwargs)]

ClassicAdapter_get_deprecated_msg_last(self, wrapped, instance, kwargs, order) ==
    IF IsNone(self.deprecated_args)
    THEN [msg |-> Some(EntityMsg(self, wrapped, instance)),
          argstodeprecate |-> self.argstodeprecate]
    ELSE [msg |-> IF order = <<>> THEN None
                  ELSE Some(<<ParamMsg(self, order[Len(order)])>>),
          argstodeprecate |-> Keys(Val(self.deprecated_args)) \cap Keys(kwargs)]

\* ClassicAdapter.get_deprecated_msg(wrapped, instance, kwargs).  kwargs is the
\* dict of keyword arguments of the call; order is the order in which Python
\* iterates the set self.argstodeprecate.  Returns the dict of messages (None
\* for "no message") and the attribute the call assigns on the adapter.
ClassicAdapter_get_deprecated_msg(self, wrapped, instance, kwargs, order) ==
    IF IsNone(self.deprecated_args)
    THEN [msg |-> Some(EntityMsg(self, wrapped, instance)),
          argstodeprecate |-> self.argstodeprecate]
    ELSE LET argstodeprecate == Keys(Val(self.deprecated_args)) \cap Keys(kwargs)
             warningargs == [i \in 1..Len(order) |-> ParamMsg(self, order[i])]
             name == IF argstodeprecate # {} THEN order[Len(order)] ELSE ""
         IN [msg |-> IF name = "" THEN None ELSE Some(warningargs),
             argstodeprecate |-> argstodeprecate]

-----------------------------------------------------------------------------
(* SphinxAdapter (sphinx.py): construction and the message without Sphinx    *)
(* cross-reference syntax.                                                   *)

\* the characters of the model that are not letters (each is a token of its own)
Backtick == "<backtick>"

NonLetters ==
    {" ", "\n", ".", "(", ")", "-", ":", Backtick, ",", "~", "'", "[", "]", "*", "=", "+",
     "0", "1", "2", "3", "4", "5", "6", "7", "8", "9"}

\* [a-zA-Z]+ matches exactly the tokens that are runs of letters
IsAlpha(tok) == tok \notin NonLetters

\* the position of the first backtick at or after j, 0 when there is none
RECURSIVE BacktickEnd(_, _)
BacktickEnd(t, j) ==
    IF j > Len(t) THEN 0
    ELSE IF t[j] = Backtick THEN j
    ELSE BacktickEnd(t, j + 1)

\* the pattern  : [a-zA-Z]+ : (BQ [^BQ]* BQ)  at position i (BQ the backtick): the span of group 1, or no match
MatchRole(t, i) ==
    IF /\ i + 3 <= Len(t)
       /\ t[i] = ":" /\ IsAlpha(t[i + 1]) /\ t[i + 2] = ":" /\ t[i + 3] = Backtick
       /\ BacktickEnd(t, i + 4) # 0
    THEN [ok |-> TRUE, from |-> i + 3, to |-> BacktickEnd(t, i + 4)]
    ELSE [ok |-> FALSE, from |-> 0, to |-> 0]

\* a pattern without the optional domain: C21_ReferencesStripped fails with it
MatchRef_role(t, i) == MatchRole(t, i)

\* the pattern  (?: : [a-zA-Z]+ )? : [a-zA-Z]+ : (BQ [^BQ]* BQ)  at position i
MatchRef(t, i) ==
    IF i + 1 <= Len(t) /\ t[i] = ":" /\ IsAlpha(t[i + 1]) /\ MatchRole(t, i + 2).ok
    THEN MatchRole(t, i + 2)
    ELSE MatchRole(t, i)

\* re.sub(pattern, r"\1", value): leftmost matches, left to right, not overlapping
RECURSIVE StripRefsFrom(_, _)
StripRefsFrom(t, i) ==
    IF i > Len(t) THEN <<>>
    ELSE LET m == MatchRef(t, i)
         IN IF m.ok
            THEN SubSeq(t, m.from, m.to) \o StripRefsFrom(t, m.to + 1)
            ELSE <<t[i]>> \o StripRefsFrom(t, i + 1)

StripRefs(t) == StripRefsFrom(t, 1)

\* an __init__ that refuses an empty version: C6_VersionOptional fails with it
SphinxAdapter_init_versioned(directive, reason, version, remove_version, action, category, deprecated_args) ==
    IF version = <<>>
    THEN [exc |-> Some("ValueError"), self |-> None]
    ELSE [exc |-> None,
          self |-> Some([ClassicAdapter_init(reason, version, remove_version, action,
                                             deprecated_args, category)
                         EXCEPT !.cls = "SphinxAdapter", !.directive = directive])]

\* SphinxAdapter.__init__ (lines 98-112): stores directive and delegates to
\* ClassicAdapter.__init__; no argument is validated and nothing is raised.
SphinxAdapter_init(directive, reason, version, remove_version, action, category, deprecated_args) ==
    [exc |-> None,
     self |-> Some([ClassicAdapter_init(reason, version, remove_version, action,
                                        deprecated_args, category)
                    EXCEPT !.cls = "SphinxAdapter", !.directive = directive])]

\* SphinxAdapter.get_deprecated_msg: the classic message(s), each with the
\* cross-reference syntax removed; None stays None
SphinxAdapter_get_deprecated_msg(self, wrapped, instance, kwargs, order) ==
    LET strip(r) ==
            IF IsNone(r.msg) \/ Val(r.msg) = <<>> THEN r
            ELSE [r EXCEPT !.msg = Some([i \in 1..Len(Val(r.msg)) |->
                                            [Val(r.msg)[i] EXCEPT !.message = StripRefs(@)]])]
    IN strip(ClassicAdapter_get_deprecated_msg(self, wrapped, instance, kwargs, order))

\* adapter.get_deprecated_msg, dispatched on the adapter's class
get_deprecated_msg(self, wrapped, instance, kwargs, order) ==
    IF self.cls = "SphinxAdapter"
    THEN SphinxAdapter_get_deprecated_msg(self, wrapped, instance, kwargs, order)
    ELSE ClassicAdapter_get_deprecated_msg(self, wrapped, instance, kwargs, order)

-----------------------------------------------------------------------------
(* Documentation text.  A docstring is handled character by character: the   *)
(* sequence of its characters, each a string of length one.  Chars turns a   *)
(* text of tokens into its characters.  Offsets are Python offsets: s[:k] is *)
(* SubSeq(s, 1, k) and s[k:] is SubSeq(s, k + 1, Len(s)).                    *)

\* the spelling of the words of the model's texts
Spelling ==
    [Parameters |-> <<"P", "a", "r", "a", "m", "e", "t", "e", "r", "s">>,
     Returns |-> <<"R", "e", "t", "u", "r", "n", "s">>,
     int |-> <<"i", "n", "t">>,
     description |-> <<"d", "e", "s", "c", "r", "i", "p", "t", "i", "o", "n">>,
     admonition |-> <<"a", "d", "m", "o", "n", "i", "t", "i", "o", "n">>,
     Deprecated |-> <<"D", "e", "p", "r", "e", "c", "a", "t", "e", "d">>,
     class |-> <<"c", "l", "a", "s", "s">>,
     warning |-> <<"w", "a", "r", "n", "i", "n", "g">>,
     Parameter |-> <<"P", "a", "r", "a", "m", "e", "t", "e", "r">>,
     deprecated |-> <<"d", "e", "p", "r", "e", "c", "a", "t", "e", "d">>,
     since |-> <<"s", "i", "n", "c", "e">>,
     and |-> <<"a", "n", "d">>,
     will |-> <<"w", "i", "l", "l">>,
     be |-> <<"b", "e">>,
     removed |-> <<"r", "e", "m", "o", "v", "e", "d">>,
     in |-> <<"i", "n">>,
     version |-> <<"v", "e", "r", "s", "i", "o", "n">>,
     Warning |-> <<"W", "a", "r", "n", "i", "n", "g">>,
     This |-> <<"T", "h", "i", "s">>,
     feature |-> <<"f", "e", "a", "t", "u", "r", "e">>,
     useless |-> <<"u", "s", "e", "l", "e", "s", "s">>,
     nothing |-> <<"n", "o", "t", "h", "i", "n", "g">>,
     versionadded |-> <<"v", "e", "r", "s", "i", "o", "n", "a", "d", "d", "e", "d">>,
     versionchanged |-> <<"v", "e", "r", "s", "i", "o", "n", "c", "h", "a", "n", "g", "e", "d">>,
     Summary |-> <<"S", "u", "m", "m", "a", "r", "y">>,
     Adds |-> <<"A", "d", "d", "s">>,
     the |-> <<"t", "h", "e">>,
     sum |-> <<"s", "u", "m">>,
     of |-> <<"o", "f">>,
     its |-> <<"i", "t", "s">>,
     arguments |-> <<"a", "r", "g", "u", "m", "e", "n", "t", "s">>,
     Use |-> <<"U", "s", "e">>,
     bar |-> <<"b", "a", "r">>,
     instead |-> <<"i", "n", "s", "t", "e", "a", "d">>,
     func |-> <<"f", "u", "n", "c">>,
     py |-> <<"p", "y">>,
     Examples |-> <<"E", "x", "a", "m", "p", "l", "e", "s">>]

CharsOf(tok) == IF tok = Backtick \/ Len(tok) = 1 THEN <<tok>> ELSE Spelling[tok]

RECURSIVE Chars(_)
Chars(t) == IF t = <<>> THEN <<>> ELSE CharsOf(Head(t)) \o Chars(Tail(t))

Min(S) == CHOOSE x \in S : \A y \in S : x <= y

\* s[k:] and s[:k]
From(s, k) == SubSeq(s, k + 1, Len(s))
UpTo(s, k) == SubSeq(s, 1, k)

\* \s for the characters of the model (blank and newline)
IsSpace(c) == c \in {" ", "\n"}

Spaces(n) == [i \in 1..n |-> " "]

\* pat occurs in s at the offset k
MatchAt(s, k, pat) == k + Len(pat) <= Len(s) /\ SubSeq(s, k + 1, k + Len(pat)) = pat

\* the least offset at which pat occurs in s, -1 when there is none (str.find)
Find(s, pat) ==
    LET K == {k \in 0..(Len(s) - Len(pat)) : MatchAt(s, k, pat)}
    IN IF K = {} THEN -1 ELSE Min(K)

\* the offset of the first character at or after k that is not whitespace
\* (len(s) when there is none)
SkipSpace(s, k) ==
    Min({j \in k..Len(s) : j = Len(s) \/ ~IsSpace(s[j + 1])})

\* s.count(c)
Count(s, c) == Cardinality({i \in DOMAIN s : s[i] = c})

\* s.split("\n")
RECURSIVE SplitNL(_)
SplitNL(s) ==
    LET split(k) == IF k = -1 THEN <<s>> ELSE <<UpTo(s, k)>> \o SplitNL(From(s, k + 1))
    IN split(Find(s, <<"\n">>))

\* "\n".join(lines)
RECURSIVE JoinNL(_)
JoinNL(lines) ==
    IF Len(lines) = 0 THEN <<>>
    ELSE IF Len(lines) = 1 THEN lines[1]
    ELSE lines[1] \o <<"\n">> \o JoinNL(Tail(lines))

\* s.splitlines(): the lines without their ends; no last empty line
SplitLines(s) ==
    IF s = <<>> THEN <<>>
    ELSE IF s[Len(s)] = "\n" THEN SplitNL(UpTo(s, Len(s) - 1))
    ELSE SplitNL(s)

\* "".join(line + "\n" for line in lines)
RECURSIVE JoinLines(_)
JoinLines(lines) ==
    IF lines = <<>> THEN <<>> ELSE lines[1] \o <<"\n">> \o JoinLines(Tail(lines))

\* the line has no character other than blanks
Blank(line) == \A i \in DOMAIN line : line[i] = " "

\* the number of blanks the line starts with
LeadingSpaces(line) == SkipSpace(line \o <<"x">>, 0)

\* textwrap.dedent: lines of blanks become empty, the other lines lose the
\* longest run of blanks they all start with
dedent(s) ==
    LET cut(lines, margin) ==
            JoinNL([i \in DOMAIN lines |->
                       From(lines[i], IF lines[i] = <<>> THEN 0 ELSE margin)])
        margin(indents) == IF indents = {} THEN 0 ELSE Min(indents)
        clean(lines) ==
            cut(lines, margin({LeadingSpaces(lines[i]) :
                                  i \in {j \in DOMAIN lines : lines[j] # <<>>}}))
        blank(lines) == clean([i \in DOMAIN lines |-> IF Blank(lines[i]) THEN <<>> ELSE lines[i]])
    IN blank(SplitNL(s))

\* s.strip()
strip(s) ==
    IF \A i \in DOMAIN s : IsSpace(s[i]) THEN <<>>
    ELSE SubSeq(s, SkipSpace(s, 0) + 1, CHOOSE j \in DOMAIN s :
                    ~IsSpace(s[j]) /\ \A i \in (j + 1)..Len(s) : IsSpace(s[i]))

\* re.sub(r"\n+$", "", s): the newlines at the end are removed
StripNewlines(s) ==
    UpTo(s, Min({k \in 0..Len(s) : \A i \in (k + 1)..Len(s) : s[i] = "\n"}))

\* re.sub(r"[\n]{3,}", "\n\n", s): a run of three or more newlines becomes two,
\* so a newline goes when the two characters before it are newlines
RECURSIVE CollapseIn(_, _, _)
CollapseIn(s, lo, hi) ==
    IF lo > hi THEN <<>>
    ELSE IF lo = hi
    THEN (IF lo > 2 /\ s[lo] = "\n" /\ s[lo - 1] = "\n" /\ s[lo - 2] = "\n" THEN <<>>
          ELSE <<s[lo]>>)
    ELSE CollapseIn(s, lo, (lo + hi) \div 2) \o CollapseIn(s, (lo + hi) \div 2 + 1, hi)

Collapse(s) == CollapseIn(s, 1, Len(s))

\* textwrap.indent(s, prefix): the prefix goes before every line that is not
\* of whitespace only
indent(s, prefix) ==
    LET put(lines) == JoinNL([i \in DOMAIN lines |->
                                 IF Blank(lines[i]) THEN lines[i] ELSE prefix \o lines[i]])
    IN put(SplitNL(s))

\* TextWrapper._split_chunks for a paragraph without hyphens: the maximal
\* runs of blanks and of other characters
RunLen(s) == Min({k \in 1..Len(s) : k = Len(s) \/ (s[k + 1] = " ") # (s[1] = " ")})

RECURSIVE Chunks(_)
Chunks(s) ==
    LET split(k) == <<UpTo(s, k)>> \o Chunks(From(s, k))
    IN IF s = <<>> THEN <<>> ELSE split(RunLen(s))

\* the number of leading chunks that fit in the room left on a line
RECURSIVE Fit(_, _)
Fit(chunks, room) ==
    IF chunks = <<>> \/ Len(chunks[1]) > room THEN 0
    ELSE 1 + Fit(Tail(chunks), room - Len(chunks[1]))

RECURSIVE Concat(_)
Concat(chunks) == IF chunks = <<>> THEN <<>> ELSE chunks[1] \o Concat(Tail(chunks))

\* TextWrapper._wrap_chunks with drop_whitespace and break_long_words: a line
\* takes the chunks that fit, then the head of a word longer than a line;
\* whitespace is dropped at the start of a line after the first and at the
\* end of every line
RECURSIVE WrapChunks(_, _, _, _, _)
WrapChunks(chunks, width, initial_indent, subsequent_indent, lines) ==
    LET ind == IF lines # <<>> THEN subsequent_indent ELSE initial_indent
        room == width - Len(ind)
        close(cur, rest) ==
            WrapChunks(rest, width, initial_indent, subsequent_indent,
                       IF cur # <<>> /\ Blank(cur[Len(cur)])
                       THEN (IF Len(cur) > 1
                             THEN Append(lines, ind \o Concat(SubSeq(cur, 1, Len(cur) - 1)))
                             ELSE lines)
                       ELSE IF cur # <<>> THEN Append(lines, ind \o Concat(cur))
                       ELSE lines)
        break(cur, rest, space_left) ==
            IF rest # <<>> /\ Len(rest[1]) > room
            THEN close(Append(cur, UpTo(rest[1], space_left)),
                       <<From(rest[1], space_left)>> \o Tail(rest))
            ELSE close(cur, rest)
        take(cs, n) ==
            break(SubSeq(cs, 1, n), SubSeq(cs, n + 1, Len(cs)),
                  IF room < 1 THEN 1 ELSE room - Len(Concat(SubSeq(cs, 1, n))))
        start(cs) == take(cs, Fit(cs, room))
    IN IF chunks = <<>> THEN lines
       ELSE start(IF lines # <<>> /\ Blank(chunks[1]) THEN Tail(chunks) ELSE chunks)

\* textwrap.fill(paragraph, width, initial_indent, subsequent_indent)
fill(paragraph, width, initial_indent, subsequent_indent) ==
    JoinNL(WrapChunks(Chunks(paragraph), width, initial_indent, subsequent_indent, <<>>))

-----------------------------------------------------------------------------
(* Python values handed to the decorator factory, and decorated entities.    *)
(*   type: "str", "int", "class", "function" (a def, whatever it is bound    *)
(*         as later) or "callableobj" (an instance with __call__, a partial) *)
(*   binding: how a function is reached at call time                         *)
(*   new: "object" when the class inherits object.__new__, else "custom"     *)

(*   doc: __doc__, None or the characters of the docstring                   *)

PyVal(type, name, text, binding, new, params) ==
    [type |-> type, name |-> name, text |-> text, binding |-> binding, new |-> new,
     params |-> params, doc |-> None]

\* the value with the docstring d (the characters of the literal in the source)
WithDoc(v, d) == [v EXCEPT !.doc = Some(d)]

StrVal(t) == PyVal("str", "", t, "", "", <<>>)

callable(v) == v.type \in {"class", "function", "callableobj"}
isclass(v) == v.type = "class"
\* an isroutine that takes every callable: C12_ClassesAndRoutines fails with it
isroutine_any(v) == v.type \in {"function", "callableobj"}
isroutine(v) == v.type = "function"

\* d with d[k] = v
SetKey(d, k, v) == [x \in (DOMAIN d) \cup {k} |-> IF x = k THEN v ELSE d[x]]
\* d without the key k (dict.pop)
DelKey(d, k) == [x \in (DOMAIN d) \ {k} |-> d[x]]

NoKwargs == {}

\* adapter_cls(**kwargs): absent keys take the defaults of the __init__ signature
Construct(adapter_cls, kwargs) ==
    IF adapter_cls = "SphinxAdapter"
    THEN SphinxAdapter_init(kwargs["directive"],
                            Get(kwargs, "reason", <<>>), Get(kwargs, "version", <<>>),
                            Get(kwargs, "remove_version", <<>>),
                            Get(kwargs, "action", NoAction),
                            Get(kwargs, "category", "DeprecationWarning"),
                            Get(kwargs, "deprecated_args", None))
    ELSE [exc |-> None,
          self |-> Some(ClassicAdapter_init(Get(kwargs, "reason", <<>>),
                                            Get(kwargs, "version", <<>>),
                                            Get(kwargs, "remove_version", <<>>),
                                            Get(kwargs, "action", NoAction),
                                            Get(kwargs, "deprecated_args", None),
                                            Get(kwargs, "category", "DeprecationWarning")))]

\* a decorated (or returned as is) entity: the value, the adapter, which wrapper
\* intercepts its calls, and the action and category the wrapper closes over
Entity(v, adapter, wrapper, action, category) ==
    [name |-> v.name, type |-> v.type, binding |-> v.binding, new |-> v.new,
     params |-> v.params, doc |-> v.doc, adapter |-> adapter, wrapper |-> wrapper,
     action |-> action, category |-> category]

\* what adapter(wrapped) gives: the entity, the advisories (UserWarning texts)
\* it emitted on the way, and the exception that ended it, if any
Adapted(entity, advisories) == [entity |-> entity, advisories |-> advisories, exc |-> None]

\* ClassicAdapter.__call__ (lines 168-191): a class gets its __new__ replaced by
\* wrapped_cls, anything else is returned unchanged
ClassicAdapter_call(self, wrapped) ==
    IF isclass(wrapped)
    THEN Adapted(Entity(wrapped, self, "wrapped_cls", self.action, self.category), <<>>)
    ELSE Adapted(Entity(wrapped, self, "none", self.action, self.category), <<>>)

\* the advisory of sphinx.py line 164
MissingDocstring ==
    <<"Missing", " ", "docstring", ",", " ", "consider", " ", "adding", " ", "a", " ",
      "numpydoc", " ", "style", " ", "docstring", " ", "for", " ", "the", " ", "decorator",
      " ", "to", " ", "work", " ", "(", "Sphinx", " ", "directive", " ", "won", "'", "t",
      " ", "be", " ", "added", ")">>

\* the advisory of sphinx.py line 170
MissingParameterSection ==
    <<"Missing", " ", "Parameter", " ", "section", ",", " ", "consider", " ", "adding", " ",
      "a", " ", "numpydoc", " ", "style", " ", "parameters", " ", "section", " ", "in", " ",
      "your", " ", "docstring", " ", "for", " ", "the", " ", "decorator", " ", "to", " ",
      "work", " ", "(", "Sphinx", " ", "directive", " ", "won", "'", "t", " ", "be", " ",
      "added", ")">>

\* the advisory of sphinx.py line 233
MissingDescription(arg) ==
    <<"Missing", " ", "description", " ", "for", " ", "parameter", " ", arg, ",", " ",
      "consider", " ", "adding", " ", "a", " ", "numpydoc", " ", "style", " ",
      "description", " ", "for", " ", "the", " ", "decorator", " ", "to", " ", "work", " ",
      "(", "Sphinx", " ", "directive", " ", "won", "'", "t", " ", "be", " ", "added", ")">>

\* the default line_length of SphinxAdapter.__init__ and of the factories
LineLength == 70

\* 2 ** 16, the width that never wraps
MaxWidth == 65536

\* the paragraph lines 139 and 214 add to the reason
RemovalWarning(remove_version) ==
    <<"\n", "\n", "Warning", ":", " ", "This", " ", "deprecated", " ", "feature", " ",
      "will", " ", "be", " ", "removed", " ", "in", " ", "version", " ">> \o remove_version

\* s[a:b] for a >= 0: a negative b counts from the end
Slice(s, a, b) ==
    LET e == IF b < 0 THEN (IF Len(s) + b < 0 THEN 0 ELSE Len(s) + b)
             ELSE IF b > Len(s) THEN Len(s) ELSE b
    IN IF e <= a THEN <<>> ELSE SubSeq(s, a + 1, e)

Dashes(n) == [i \in 1..n |-> "-"]

\* the loops of lines 147-158 and 217-225: every paragraph is filled and its
\* lines are added; an empty paragraph gives an empty line in the first loop
\* (keep_empty) and nothing in the second
RECURSIVE FillParagraphs(_, _, _, _)
FillParagraphs(paragraphs, width, ind, keep_empty) ==
    IF paragraphs = <<>> THEN <<>>
    ELSE (IF Head(paragraphs) = <<>> /\ keep_empty THEN << <<>> >>
          ELSE SplitLines(fill(Head(paragraphs), width, ind, ind)))
         \o FillParagraphs(Tail(paragraphs), width, ind, keep_empty)

\* lines 136-160: the directive block of an entity-level deprecation
DirectiveBlock(self) ==
    LET width == IF LineLength > 3 THEN LineLength - 3 ELSE MaxWidth
        reason == strip(dedent(Chars(self.reason \o
                      (IF self.remove_version # <<>> THEN RemovalWarning(self.remove_version)
                       ELSE <<>>))))
        head == Chars(<<".", ".", " ", self.directive, ":", ":">> \o
                      (IF self.version # <<>> THEN <<" ">> \o self.version ELSE <<>>))
    IN JoinLines(<<head>> \o FillParagraphs(SplitLines(reason), width, Spaces(3), TRUE))

ParametersWord == Chars(<<"Parameters">>)

\* re.search("Parameters[\\s]*\n[\\s]*----------", docstring) (line 168) and the
\* indentation of line 175: the word, whitespace with a newline in it, ten
\* dashes; indentsize is the number of blanks between the last newline and the
\* dashes
SearchParameters(docstring) ==
    LET underlined(dashes, k) ==
            /\ Count(Slice(docstring, k + 10, dashes), "\n") > 0
            /\ MatchAt(docstring, dashes, Dashes(10))
        at(start, dashes) ==
            [start |-> start, end |-> dashes + 10,
             indentsize |-> Min({n \in 0..(dashes - 1) : docstring[dashes - n] = "\n"})]
        first(K) == IF K = {} THEN None ELSE Some(at(Min(K), SkipSpace(docstring, Min(K) + 10)))
    IN first({k \in 0..Len(docstring) :
                 /\ MatchAt(docstring, k, ParametersWord)
                 /\ underlined(SkipSpace(docstring, k + 10), k)})

\* a search that takes the end of the section for the entry of any parameter:
\* C16_MismatchIsNotFatal fails with it
SearchArg_end(params_section, ind, arg) == Len(params_section)

\* re.search(f"\n{indent}{arg}\\s*:", params_section).end() (lines 190-191),
\* -1 when there is no match
SearchArg(params_section, ind, arg) ==
    LET first(K, n) == IF K = {} THEN -1 ELSE SkipSpace(params_section, Min(K) + n) + 1
        search(pat) ==
            first({k \in 0..Len(params_section) :
                      /\ MatchAt(params_section, k, pat)
                      /\ MatchAt(params_section,
                                 SkipSpace(params_section, k + Len(pat)), <<":">>)},
                  Len(pat))
    IN search(<<"\n">> \o ind \o Chars(<<arg>>))

\* a search that never finds the next entry: C13_SplicePosition fails with it
SearchEntry_none(s, ind) == -1

\* re.search(f"\n{indent}\\S", s).start() (lines 195-196), -1 when there is no match
SearchEntry(s, ind) ==
    LET first(K) == IF K = {} THEN -1 ELSE Min(K)
        search(pat) ==
            first({k \in 0..Len(s) :
                      /\ MatchAt(s, k, pat)
                      /\ k + Len(pat) < Len(s)
                      /\ ~IsSpace(s[k + Len(pat) + 1])})
    IN search(<<"\n">> \o ind)

\* a head that goes on with the reason of the parameter's own entry:
\* C29_EntityReasonInBlock fails with it
AdmonitionHead_reason(arg, sub) ==
    Chars(<<"\n", "\n", " ", " ", " ", " ", ".", ".", " ", "admonition", ":", ":", " ",
            "Deprecated", "\n", " ", " ", " ", " ", " ", " ", ":", "class", ":", " ",
            "warning", "\n", "\n", " ", " ", " ", " ", " ", " ",
            "Parameter", " ", arg, " ", "deprecated", " ", "since", " ">>
          \o Item(sub, "version") \o <<"\n">> \o DGet(sub, "reason", <<>>))

\* lines 201-211: the head of the admonition of a parameter; the sub-record has
\* a version here
AdmonitionHead(arg, sub) ==
    Chars(<<"\n", "\n", " ", " ", " ", " ", ".", ".", " ", "admonition", ":", ":", " ",
            "Deprecated", "\n", " ", " ", " ", " ", " ", " ", ":", "class", ":", " ",
            "warning", "\n", "\n", " ", " ", " ", " ", " ", " ",
            "Parameter", " ", arg, " ", "deprecated", " ", "since", " ">>
          \o Item(sub, "version")
          \o (IF "remove_version" \in Keys(sub)
              THEN <<" ", "and", " ", "will", " ", "be", " ", "removed", " ", "in", " ",
                     "version", " ">> \o Item(sub, "remove_version") \o <<".">>
              ELSE <<>>))

\* lines 179-187: the span of the Parameters section.  When a line of five
\* dashes at the section's indentation follows, the span ends before it, moved
\* back by the number of dashes in all the text from there on.
ParamsSection(docstring, search) ==
    LET ending(e) == Slice(docstring, search.start, e - Count(From(docstring, e), "-"))
        span(next) == IF next # -1 THEN ending(search.end + next)
                      ELSE From(docstring, search.start)
    IN span(Find(From(docstring, search.end),
                 <<"\n">> \o Spaces(search.indentsize) \o Dashes(5)))

\* lines 190-230 for a parameter whose entry was found at description_start:
\* the admonition and the reason go in before the next entry, or at the end of
\* the section; a sub-record without 'version' is a KeyError (line 211)
InsertAdmonition(self, st, arg, search, params_section, description_start) ==
    LET ind == Spaces(search.indentsize)
        sub == Item(Val(self.deprecated_args), arg)
        splice(pos, a) ==
            Collapse(UpTo(st.doc, pos) \o <<"\n", "\n">> \o a \o <<"\n", "\n">>
                     \o From(st.doc, pos))
        insert(rest, next, reason) ==
            [st EXCEPT
                !.reason = reason,
                !.doc = splice(search.start + description_start
                                   + (IF next # -1 THEN next ELSE Len(rest)),
                               indent(JoinLines(<<AdmonitionHead(arg, sub)>> \o
                                          FillParagraphs(SplitLines(strip(dedent(Chars(reason)))),
                                                         MaxWidth, ind, FALSE)),
                                      ind))]
        at(rest) ==
            insert(rest, SearchEntry(rest, ind),
                   st.reason \o (IF self.remove_version # <<>>
                                 THEN RemovalWarning(self.remove_version) ELSE <<>>))
    IN IF "version" \notin Keys(sub) THEN [st EXCEPT !.exc = Some("KeyError")]
       ELSE at(From(params_section, description_start))

\* lines 168-233: one turn of the loop over the deprecated parameters
AnnotateParam(self, st, arg) ==
    LET advise(text) == [st EXCEPT !.advisories = Append(@, [key |-> arg, message |-> text])]
        entry(search, params_section, description_start) ==
            IF description_start # -1
            THEN InsertAdmonition(self, st, arg, search, params_section, description_start)
            ELSE advise(MissingDescription(arg))
        section(search, params_section) ==
            entry(search, params_section,
                  SearchArg(params_section, Spaces(search.indentsize), arg))
        found(search) ==
            IF IsNone(search) THEN advise(MissingParameterSection)
            ELSE section(Val(search), ParamsSection(st.doc, Val(search)))
    IN found(SearchParameters(st.doc))

\* a loop that stops after its first turn: C14_TwoBlocks fails with it
AnnotateParams_first(self, st, order) ==
    IF order = <<>> THEN st ELSE AnnotateParam(self, st, Head(order))

\* the loop of line 166, in the iteration order of set(deprecated_args.keys())
RECURSIVE AnnotateParams(_, _, _)
AnnotateParams(self, st, order) ==
    IF order = <<>> \/ ~IsNone(st.exc) THEN st
    ELSE AnnotateParams(self, AnnotateParam(self, st, Head(order)), Tail(order))

\* a preparation that takes the docstring as it is: C17_EntityLevelText fails
\* with it
PrepareDocstring_raw(doc) ==
    IF IsNone(doc) THEN <<"\n">> ELSE Val(doc) \o <<"\n", "\n">>

\* lines 128-134: the docstring is dedented; its trailing newlines become one
\* empty line; no docstring (or an empty one) becomes a single newline
PrepareDocstring(doc) ==
    LET end(docstring) ==
            IF docstring # <<>> THEN StripNewlines(docstring) \o <<"\n", "\n">> ELSE <<"\n">>
    IN end(dedent(IF IsNone(doc) THEN <<>> ELSE Val(doc)))

\* SphinxAdapter.__call__ (lines 114-239).  Without deprecated_args the
\* directive block is appended to the docstring; with them every deprecated
\* parameter gets its admonition, or an advisory when the docstring, the
\* section or the entry is missing.  order is the iteration order of
\* set(self.deprecated_args.keys()), which the hash seed of the process decides.
\* versionadded and versionchanged then return the entity as it is, the other
\* directives go on to ClassicAdapter.__call__.
SphinxAdapter_call(self, wrapped, order) ==
    LET st0(docstring) ==
            [doc |-> docstring, reason |-> self.reason, advisories |-> <<>>, exc |-> None]
        annotate(docstring) ==
            IF IsNone(self.deprecated_args)
            THEN [st0(docstring) EXCEPT !.doc = docstring \o DirectiveBlock(self)]
            ELSE IF docstring = <<"\n">>
            THEN [st0(docstring) EXCEPT
                     !.advisories = <<[key |-> "", message |-> MissingDocstring]>>]
            ELSE AnnotateParams(self, st0(docstring), order)
        finish(r) ==
            IF ~IsNone(r.exc)
            THEN [entity |-> Entity(wrapped, self, "none", self.action, self.category),
                  advisories |-> r.advisories, exc |-> r.exc]
            ELSE IF self.directive \in {"versionadded", "versionchanged"}
            THEN Adapted(Entity(WithDoc(wrapped, r.doc), [self EXCEPT !.reason = r.reason],
                                "none", self.action, self.category), r.advisories)
            ELSE Adapted(ClassicAdapter_call([self EXCEPT !.reason = r.reason],
                                             WithDoc(wrapped, r.doc)).entity,
                         r.advisories)
    IN finish(annotate(PrepareDocstring(wrapped.doc)))

adapter_call(self, wrapped, order) ==
    IF self.cls = "SphinxAdapter" THEN SphinxAdapter_call(self, wrapped, order)
    ELSE ClassicAdapter_call(self, wrapped)

\* what a call of the factory gives: a partial application that waits for the
\* entity, the wrapped entity, or an exception
Partial(kwargs) ==
    [tag |-> "partial", exc |-> "", kwargs |-> kwargs, entity |-> None, advisories |-> <<>>]
Raise(exc) ==
    [tag |-> "raise", exc |-> exc, kwargs |-> <<>>, entity |-> None, advisories |-> <<>>]
\* an exception that comes after advisories
RaiseAfter(exc, advisories) == [Raise(exc) EXCEPT !.advisories = advisories]
Return(e, advisories) ==
    [tag |-> "wrapped", exc |-> "", kwargs |-> <<>>, entity |-> Some(e),
     advisories |-> advisories]

\* a factory that takes whatever is not a string as the entity and checks
\* nothing: C11_TypeErrorForNonCallable fails with it
deprecat_lenient(args, kwargs, order) ==
    IF args = <<>> THEN Partial(kwargs)
    ELSE IF args[1].type = "str" THEN Partial(SetKey(kwargs, "reason", args[1].text))
    ELSE Return(Entity(args[1],
                       Val(Construct("ClassicAdapter", DelKey(kwargs, "adapter_cls")).self),
                       "wrapper_function", NoAction, "DeprecationWarning"), <<>>)

\* classic.deprecat(*args, **kwargs) (lines 194-239).  ClassicAdapter is a
\* wrapt.AdapterFactory, so wrapt.decorator(adapter=adapter) calls
\* adapter(wrapped) when wrapper_function is applied to the routine.  order is
\* the iteration order adapter(wrapped) meets (see SphinxAdapter_call).
deprecat(args, kwargs, order) ==
    LET isStr == args # <<>> /\ args[1].type = "str"
        kw1 == IF isStr THEN SetKey(kwargs, "reason", args[1].text) ELSE kwargs
        args1 == IF isStr THEN Tail(args) ELSE args
        apply(wrapped, c, action, category) ==
            LET wrap(r) ==
                    IF ~IsNone(r.exc) THEN RaiseAfter(Val(r.exc), r.advisories)
                    ELSE IF isclass(wrapped) THEN Return(r.entity, r.advisories)
                    ELSE Return([r.entity EXCEPT !.wrapper = "wrapper_function",
                                                 !.action = action, !.category = category],
                                r.advisories)
            IN IF ~IsNone(c.exc) THEN Raise(Val(c.exc))
               ELSE IF isclass(wrapped) \/ isroutine(wrapped)
               THEN wrap(adapter_call(Val(c.self), wrapped, order))
               ELSE Raise("TypeError")
    IN IF args1 # <<>> /\ ~callable(args1[1]) THEN Raise("TypeError")
       ELSE IF args1 # <<>>
       THEN apply(args1[1],
                  Construct(Get(kw1, "adapter_cls", "ClassicAdapter"),
                            DelKey(kw1, "adapter_cls")),
                  Get(kw1, "action", NoAction),
                  Get(kw1, "category", "DeprecationWarning"))
       ELSE Partial(kw1)

\* sphinx.deprecat(reason, directive, version, remove_version, line_length,
\* deprecated_args, **kwargs) (lines 337-387).  directive is a named parameter, so
\* it is never a key of kwargs and kwargs.pop('directive', 'deprecated') gives
\* the default.
sphinx_deprecat(reason, directive, version, remove_version, deprecated_args, kwargs) ==
    LET directive_ == Get(kwargs, "directive", "deprecated")
        adapter_cls == Get(kwargs, "adapter_cls", "SphinxAdapter")
        kw1 == SetKey(SetKey(SetKey(SetKey(
                   DelKey(DelKey(kwargs, "directive"), "adapter_cls"),
                   "reason", reason), "version", version),
                   "remove_version", remove_version), "deprecated_args", deprecated_args)
    IN deprecat(<<>>, SetKey(SetKey(kw1, "directive", directive_), "adapter_cls", adapter_cls),
                <<>>)

\* a versionadded that builds its adapter with the directive "deprecated":
\* C18_VersionNeverWarns fails with it
versionadded_deprecated(reason, version) ==
    Val(SphinxAdapter_init("deprecated", reason, version, <<>>, NoAction,
                           "DeprecationWarning", None).self)

\* sphinx.versionadded(reason, version, line_length) (lines 274-303): the
\* adapter itself is the decorator
versionadded(reason, version) ==
    Val(SphinxAdapter_init("versionadded", reason, version, <<>>, NoAction,
                           "DeprecationWarning", None).self)

\* sphinx.versionchanged(reason, version, line_length) (lines 306-334)
versionchanged(reason, version) ==
    Val(SphinxAdapter_init("versionchanged", reason, version, <<>>, NoAction,
                           "DeprecationWarning", None).self)

-----------------------------------------------------------------------------
(* The wrappers: wrapper_function (lines 220-232) and wrapped_cls (171-187)  *)

Exc(type, text) == Some([type |-> type, text |-> text])

\* an emission that leaves the action of the decorator aside, the ambient
\* filters deciding alone: C28_ErrorEscalates fails with it
RECURSIVE EmitAll_ambient(_, _, _, _)
EmitAll_ambient(W, items, action, category) ==
    IF items = <<>> \/ ~IsNone(W.raised) THEN W
    ELSE EmitAll_ambient(warn(W, Head(items).message, category), Tail(items), action, category)

\* the loop "for key in msg.keys()": one emission per message, under a scoped
\* override when the action is set; an exception ends the loop
RECURSIVE EmitAll(_, _, _, _)
EmitAll(W, items, action, category) ==
    IF items = <<>> \/ ~IsNone(W.raised) THEN W
    ELSE LET text == Head(items).message
             W1 == IF Truthy(action) THEN warn_with_action(W, action, text, category)
                   ELSE warn(W, text, category)
         IN EmitAll(W1, Tail(items), action, category)

\* The decorated function itself, def f(a=0, b=0) (or __init__(self, a=0, b=0)):
\* more positional arguments than parameters, or a parameter given both by
\* position and by keyword, is a TypeError of the call; otherwise it returns a
\* value that shows the arguments it received.
Body(e, args, kwargs) ==
    IF \/ Len(args) > Len(e.params)
       \/ \E i \in 1..Len(args) : e.params[i] \in Keys(kwargs)
    THEN [exc |-> Exc("TypeError", <<>>), result |-> None]
    ELSE [exc |-> None, result |-> Some([of |-> e.name, args |-> args, kwargs |-> kwargs])]

\* one invocation of the original: what was invoked, with which arguments, and
\* after how many warnings.warn calls of the wrapper
Invocation(fn, args, kwargs, at) == [fn |-> fn, args |-> args, kwargs |-> kwargs, at |-> at]

Outcome(W, adapter, msg, exc, invoked, result) ==
    [W |-> W, adapter |-> adapter, msg |-> msg, exc |-> exc, invoked |-> invoked,
     result |-> result]

\* a faulty wrapper that drops the keyword arguments when it delegates:
\* C8_Delegation fails with it
wrapper_function_nokwargs(e, instance, args, kwargs, order, W) ==
    LET emit(g) == IF ~IsNone(g.msg) /\ Val(g.msg) # <<>>
                   THEN EmitAll(W, Val(g.msg), e.action, e.category)
                   ELSE W
        delegate(g, W1, b) ==
            IF ~IsNone(W1.raised)
            THEN Outcome(W1, e.adapter, g.msg, W1.raised, <<>>, None)
            ELSE Outcome(W1, e.adapter, g.msg, b.exc,
                         <<Invocation("body", args, NoKwargs, Len(W1.attempts))>>, b.result)
        run(g) == delegate(g, emit(g), Body(e, args, NoKwargs))
    IN run(get_deprecated_msg(e.adapter, e, instance, kwargs, order))

\* wrapper_function(wrapped_, instance_, args_, kwargs_)
wrapper_function(e, instance, args, kwargs, order, W) ==
    LET adapter(g) == [e.adapter EXCEPT !.argstodeprecate = g.argstodeprecate]
        emit(g) == IF ~IsNone(g.msg) /\ Val(g.msg) # <<>>
                   THEN EmitAll(W, Val(g.msg), e.action, e.category)
                   ELSE W
        delegate(g, W1, b) ==
            IF ~IsNone(W1.raised)
            THEN Outcome(W1, adapter(g), g.msg, W1.raised, <<>>, None)
            ELSE Outcome(W1, adapter(g), g.msg, b.exc,
                         <<Invocation("body", args, kwargs, Len(W1.attempts))>>, b.result)
        run(g) == delegate(g, emit(g), Body(e, args, kwargs))
    IN run(get_deprecated_msg(e.adapter, e, instance, kwargs, order))

\* wrapped_cls(cls, *args, **kwargs), installed as __new__; when it returns the
\* instance, type.__call__ runs __init__ with the arguments of the instantiation
wrapped_cls(e, args, kwargs, order, W) ==
    LET self == e.adapter
        adapter(g) == [self EXCEPT !.argstodeprecate = g.argstodeprecate]
        new(at) == IF e.new = "object" THEN Invocation("__new__", <<>>, NoKwargs, at)
                   ELSE Invocation("__new__", args, kwargs, at)
        construct(g, W1, b) ==
            IF ~IsNone(W1.raised)
            THEN Outcome(W1, adapter(g), g.msg, W1.raised, <<>>, None)
            ELSE Outcome(W1, adapter(g), g.msg, b.exc,
                         <<new(Len(W1.attempts)),
                           Invocation("__init__", args, kwargs, Len(W1.attempts))>>, b.result)
        run(g) ==
            IF IsNone(g.msg)
            THEN \* msg.keys() on None
                 Outcome(W, adapter(g), g.msg, Exc("AttributeError", <<>>), <<>>, None)
            ELSE construct(g, EmitAll(W, Val(g.msg), self.action, self.category),
                           Body(e, args, kwargs))
    IN run(get_deprecated_msg(self, e, "None", kwargs, order))

\* an entity no wrapper intercepts
unwrapped(e, args, kwargs, W) ==
    LET b == Body(e, args, kwargs)
        inv == IF isclass(e)
               THEN <<Invocation("__new__", <<>>, NoKwargs, 0),
                      Invocation("__init__", args, kwargs, 0)>>
               ELSE <<Invocation("body", args, kwargs, 0)>>
    IN Outcome(W, e.adapter, None, b.exc, inv, b.result)

CallEntity(e, instance, args, kwargs, order, W) ==
    CASE e.wrapper = "wrapper_function" -> wrapper_function(e, instance, args, kwargs, order, W)
      [] e.wrapper = "wrapped_cls" -> wrapped_cls(e, args, kwargs, order, W)
      [] OTHER -> unwrapped(e, args, kwargs, W)

\* the instance wrapt hands to the wrapper: none for a class, a free function and
\* a static method, the object for a method, the class for a class method; under
\* an interpreter older than 3.9 (binding "classmethod38") none for a class method
InstanceOf(e) ==
    CASE e.type = "class" -> "None"
      [] e.binding = "method" -> "object"
      [] e.binding = "classmethod" -> "class"
      [] OTHER -> "None"

\* the orders in which the set argstodeprecate of this call can be iterated
IterOrders(e, kwargs) ==
    IF IsNone(e.adapter.deprecated_args) THEN {<<>>}
    ELSE Orders(Keys(Val(e.adapter.deprecated_args)) \cap Keys(kwargs))

ArgVals == {1}

\* the positional arguments of a call: none, or (when positional) one
PosArgs(e, positional) ==
    IF positional /\ e.params # <<>> THEN {<<>>, <<1>>} ELSE {<<>>}

\* the keyword arguments of a call: any of the parameters among names
KwArgs(e, names) == {S \X ArgVals : S \in SUBSET (Range(e.params) \cap names)}

-----------------------------------------------------------------------------
(* The state machine: the module that defines the entities is imported (its  *)
(* decorators run), then the entities are called.                            *)

Names == {"foo", "bar"}

NoCall ==
    [name |-> "", via |-> "", instance |-> "None", args |-> <<>>, kwargs |-> NoKwargs,
     msg |-> None,
     attempts |-> <<>>, exc |-> None, invoked |-> <<>>, result |-> None,
     filtersBefore |-> <<>>, shownBefore |-> 0]

\* the ambient filter list a program starts with: empty (after resetwarnings)
\* or one simplefilter(action, category)
AmbientFilters ==
    {<<>>} \cup {<<[action |-> a, category |-> c]>> :
                    a \in FilterActions, c \in {"Warning", "DeprecationWarning"}}

\* what "foo" can be: def foo(a=0, b=0) bound in each of the ways (a class
\* method twice: under an interpreter from 3.9 on and under an older one), class
\* foo with __init__(self, a=0, b=0) and object.__new__ or a __new__ of its own
Decoratable ==
    {PyVal("function", "foo", <<>>, b, "", <<"a", "b">>) :
        b \in {"function", "staticmethod", "method", "classmethod", "classmethod38"}}
    \cup {PyVal("class", "foo", <<>>, "", n, <<"a", "b">>) : n \in {"object", "custom"}}

\* and two values that no decorator accepts
FooTargets ==
    Decoratable \cup {PyVal("callableobj", "foo", <<>>, "", "", <<"a", "b">>),
                      PyVal("int", "", <<>>, "", "", <<>>)}

\* def bar(): decorated bare
BarTarget == PyVal("function", "bar", <<>>, "function", "", <<>>)

V20 == <<"2", ".", "0">>
V30 == <<"3", ".", "0">>
V40 == <<"4", ".", "0">>
V50 == <<"5", ".", "0">>

\* the option values the decorations of the model draw from
Options(reasons, versions, removes, actions, categories, dargs) ==
    [reason : reasons, version : versions, remove_version : removes,
     action : actions, category : categories, deprecated_args : dargs]

Defaults ==
    [reason |-> <<>>, version |-> <<>>, remove_version |-> <<>>, action |-> NoAction,
     category |-> "DeprecationWarning", deprecated_args |-> None]

\* the keyword arguments a caller writes for these options: the ones that differ
\* from the defaults, except those in skip
KwOf(o, skip) ==
    [k \in {x \in DOMAIN o : o[x] # Defaults[x]} \ skip |-> o[k]]

\* the threads that call foo concurrently
Threads == {"t1", "t2"}

\* a thread that has not called foo yet.  pc is the statement of
\* wrapper_function (or of get_deprecated_msg, which it calls) the thread is
\* about to run; msg, todo and saved are locals of the call: the dict of
\* messages, the messages still to emit, and the filter list catch_warnings
\* kept; emitted are the messages given to warnings.warn
Idle ==
    [pc |-> "idle", kwargs |-> NoKwargs, msg |-> None, todo |-> <<>>, saved |-> <<>>,
     emitted |-> <<>>, exc |-> None, result |-> None]

\* the state before the import, under one of the given ambient filter lists
InitFrom(ambient) ==
    /\ filters \in ambient
    /\ onceregistry = {}
    /\ registry = {}
    /\ log = <<>>
    /\ entities = [n \in Names |-> None]
    /\ decor = [status |-> "pending", exc |-> "", factory |-> "", target |-> "",
                version |-> <<>>, dargs |-> FALSE, ambient |-> <<>>, doc |-> None,
                options |-> Defaults, order |-> <<>>]
    /\ last = NoCall
    /\ ncalls = [n \in Names |-> 0]
    /\ threads = [t \in Threads |-> Idle]

\* @deprecat(...) applied to target through the classic factory, in one of the
\* forms: "bare" (@deprecat), "positional" (@deprecat("reason", ...)), "keywords"
ClassicDecoration(form, o, target) ==
    CASE form = "bare" -> deprecat(<<target>>, <<>>, <<>>)
      [] form = "positional" ->
            LET p == deprecat(<<StrVal(o.reason)>>, KwOf(o, {"reason"}), <<>>)
            IN deprecat(<<target>>, p.kwargs, <<>>)
      [] OTHER ->
            LET p == deprecat(<<>>, KwOf(o, {}), <<>>)
            IN deprecat(<<target>>, p.kwargs, <<>>)

\* @deprecat(...) of deprecat.sphinx applied to target
\* when the options have a directive it is written as directive=...
SphinxDecoration(o, target, order) ==
    LET p == sphinx_deprecat(o.reason,
                             IF "directive" \in DOMAIN o THEN o.directive ELSE "deprecated",
                             o.version, o.remove_version, o.deprecated_args,
                             KwOf(DelKey(o, "directive"),
                                  {"reason", "version", "remove_version", "deprecated_args"}))
    IN deprecat(<<target>>, p.kwargs, order)

\* @versionadded(reason, version) and @versionchanged(reason, version) applied
\* to target: the factory gives the adapter, the adapter is the decorator
VersionDecoration(factory, o, target) ==
    LET adapter == IF factory = "versionadded" THEN versionadded(o.reason, o.version)
                   ELSE versionchanged(o.reason, o.version)
        return(r) == Return(r.entity, r.advisories)
    IN return(adapter_call(adapter, target, <<>>))

\* the iteration orders of set(deprecated_args.keys())
DecorationOrders(o) ==
    IF IsNone(o.deprecated_args) THEN {<<>>} ELSE Orders(Keys(Val(o.deprecated_args)))

Forms(o) ==
    {"keywords"} \cup (IF o = Defaults THEN {"bare"} ELSE {})
                 \cup (IF o.reason # <<>> THEN {"positional"} ELSE {})

\* The import of the module: foo is decorated with the drawn options, then bar
\* is decorated bare.  The advisories of the decoration go through the warnings
\* module; an exception of the first decoration (of the factory, or an advisory
\* turned into an error) ends the import.
DecorateWith(factory, form, o, target) ==
    /\ decor.status = "pending"
    /\ \E order \in (IF factory = "sphinx" THEN DecorationOrders(o) ELSE {<<>>}) :
       \E r \in {CASE factory = "sphinx" -> SphinxDecoration(o, target, order)
                   [] factory = "classic" -> ClassicDecoration(form, o, target)
                   [] OTHER -> VersionDecoration(factory, o, target)},
          b \in {deprecat(<<BarTarget>>, <<>>, <<>>)} :
       \E W \in {EmitAll(WState, r.advisories, NoAction, "UserWarning")} :
          /\ decor' = [status |-> IF r.tag = "raise" \/ ~IsNone(W.raised)
                                  THEN "raised" ELSE "done",
                       exc |-> IF ~IsNone(W.raised) THEN "UserWarning"
                               ELSE IF r.tag = "raise" THEN r.exc ELSE "",
                       factory |-> factory, target |-> target.type,
                       version |-> o.version, dargs |-> ~IsNone(o.deprecated_args),
                       ambient |-> filters, doc |-> target.doc, options |-> o,
                       order |-> order]
          /\ entities' = IF r.tag = "raise" \/ ~IsNone(W.raised) THEN entities
                         ELSE [n \in Names |-> IF n = "foo" THEN r.entity ELSE b.entity]
          /\ filters' = W.filters
          /\ onceregistry' = W.once
          /\ registry' = W.registry
          /\ log' = W.log
    /\ UNCHANGED <<last, ncalls, threads>>

DecorateFrom(factories, options, targets) ==
    \E factory \in factories, o \in options, target \in targets :
        \E form \in (IF factory = "classic" THEN Forms(o) ELSE {"keywords"}) :
            DecorateWith(factory, form, o, target)

\* The class an instantiation goes through: "" the decorated class itself,
\* or a subclass of it defined after the decoration,
\*   "inherits"  class Sub(foo) without a __new__ of its own
\*   "super"     whose __new__ returns super().__new__(cls, *args, **kwargs)
\*   "own"       whose __new__ returns object.__new__(cls)
Subclasses == {"inherits", "super", "own"}

\* a lookup in which a subclass does not find the __new__ set on its base:
\* C19_SubclassConstruction fails with it
Lookup_shadowed(e, via) == IF via = "" THEN e ELSE [e EXCEPT !.wrapper = "none"]

\* cls.__new__ as type.__call__ finds it: wrapped.__new__ is an attribute of the
\* decorated class, so every subclass that reaches the __new__ of its base runs
\* wrapped_cls; a __new__ that never reaches it runs no wrapper
Lookup(e, via) == IF via = "own" THEN [e EXCEPT !.wrapper = "none"] ELSE e

\* One call of a decorated entity: name(*args, **kwargs), or the instantiation
\* of a decorated class or (via) of a subclass of it.
CallVia(name, via, instance, args, kwargs, order) ==
    /\ decor.status = "done"
    /\ ncalls["foo"] + ncalls["bar"] < MaxCalls
    /\ \E e \in {Val(entities[name])} :
       \E r \in {CallEntity(Lookup(e, via), instance, args, kwargs, order, WState)} :
          /\ filters' = r.W.filters
          /\ onceregistry' = r.W.once
          /\ registry' = r.W.registry
          /\ log' = r.W.log
          /\ entities' = [entities EXCEPT ![name] = Some([e EXCEPT !.adapter = r.adapter])]
          /\ last' = [name |-> name, via |-> via, instance |-> instance, args |-> args,
                      kwargs |-> kwargs, msg |-> r.msg, attempts |-> r.W.attempts, exc |-> r.exc,
                      invoked |-> r.invoked, result |-> r.result,
                      filtersBefore |-> filters, shownBefore |-> Len(log)]
    /\ ncalls' = [ncalls EXCEPT ![name] = @ + 1]
    /\ UNCHANGED <<decor, threads>>

CallWith(name, instance, args, kwargs, order) ==
    CallVia(name, "", instance, args, kwargs, order)

\* a call of one of the entities in names, with keyword arguments among kwnames
\* and, when positional, possibly one positional argument
CallFrom(names, positional, kwnames) ==
    \E name \in names :
        /\ decor.status = "done"
        /\ \E args \in PosArgs(Val(entities[name]), positional),
              kwargs \in KwArgs(Val(entities[name]), kwnames) :
              \E order \in IterOrders(Val(entities[name]), kwargs) :
                  CallWith(name, InstanceOf(Val(entities[name])), args, kwargs, order)

\* deprecated_args: one parameter, two parameters
RecA == {<<"reason", <<"nothing">> >>, <<"version", V40>>}
RecB == {<<"version", V40>>, <<"remove_version", V50>>}

\* the instantiation of the decorated class foo or of one of its subclasses
InstantiateFrom(vias, positional, kwnames) ==
    \E via \in vias :
        /\ decor.status = "done"
        /\ isclass(Val(entities["foo"]))
        /\ \E args \in PosArgs(Val(entities["foo"]), positional),
              kwargs \in KwArgs(Val(entities["foo"]), kwnames) :
              \E order \in IterOrders(Val(entities["foo"]), kwargs) :
                  CallVia("foo", via, "None", args, kwargs, order)

-----------------------------------------------------------------------------
(* Spec: sequences of calls of foo and bar, under every ambient filter, for  *)
(* every action and category of the decoration.                              *)

SeqOptions ==
    Options({<<>>}, {<<>>}, {<<>>}, {NoAction} \cup FilterActions, Categories,
            {None, Some({<<"a", RecA>>})})

Init == InitFrom(AmbientFilters)

Decorate == DecorateFrom({"classic"}, SeqOptions, FooTargets)

Call == CallFrom(Names, FALSE, {"a"})

Next == Decorate \/ Call

Spec == Init /\ [][Next]_vars

-----------------------------------------------------------------------------
(* SpecArgs: calls of foo with every mix of positional and keyword           *)
(* arguments, for decorations with and without deprecated_args.              *)

ArgAmbient ==
    {<<[action |-> a, category |-> "Warning"]>> : a \in {"always", "error"}}

ArgOptions ==
    Options({<<>>}, {<<>>}, {<<>>}, {NoAction, "error", "ignore"}, {"DeprecationWarning"},
            {None, Some({<<"a", RecA>>}), Some({<<"a", RecA>>, <<"b", RecB>>})})

InitArgs == InitFrom(ArgAmbient)

DecorateArgs == DecorateFrom({"classic"}, ArgOptions, Decoratable)

CallArgs == CallFrom({"foo"}, TRUE, {"a", "b"})

NextArgs == DecorateArgs \/ CallArgs

SpecArgs == InitArgs /\ [][NextArgs]_vars

-----------------------------------------------------------------------------
(* SpecMsg: the texts of the messages, through both factories, for every     *)
(* combination of empty and non-empty reason, version and remove_version and *)
(* for every sub-record of a deprecated parameter.                           *)

\* the sub-records of a parameter: each field missing, the empty string, or a text
Field(name, text) == {{}, {<<name, <<>> >>}, {<<name, text>>}}

SubRecords ==
    {r \cup v \cup m : r \in Field("reason", <<"nothing">>), v \in Field("version", V40),
                       m \in Field("remove_version", V50)}

MsgOptions ==
    Options({<<>>, <<"useless">>}, {<<>>, V20}, {<<>>, V30}, {NoAction},
            {"DeprecationWarning"}, {None})
    \cup Options({<<>>}, {<<>>, V20}, {<<>>}, {NoAction}, {"DeprecationWarning"},
                 {Some({<<"a", rec>>}) : rec \in SubRecords})

InitMsg == InitFrom({<<[action |-> "always", category |-> "Warning"]>>})

DecorateMsg == DecorateFrom({"classic", "sphinx"}, MsgOptions, FooTargets)

CallMsg == CallFrom({"foo"}, FALSE, {"a"})

NextMsg == DecorateMsg \/ CallMsg

SpecMsg == InitMsg /\ [][NextMsg]_vars

-----------------------------------------------------------------------------
(* SpecDoc: the documentation.  foo has a docstring of one of the shapes     *)
(* below, or none, and is decorated with the sphinx deprecat, versionadded   *)
(* or versionchanged; then it is called.                                     *)

\* A numpydoc docstring.  first: the text starts right after the opening
\* quotes with a summary line, so that dedent finds no common margin and the
\* sections stay at the margin; otherwise the literal starts with a newline
\* and every line is at the margin.  names: the entries of the Parameters
\* section.  returns: a Returns section follows.
DocShapes ==
    [first : BOOLEAN, margin : {4}, returns : BOOLEAN,
     names : {<<"x", "a", "b">>, <<"x", "a", "b", "c">>, <<"x", "b">>}]
    \cup [first : {FALSE}, margin : {8}, returns : {FALSE}, names : {<<"x", "a", "b">>}]

Description == Spaces(4) \o Chars(<<"[", "description", "]">>)

\* the two lines of the entry of a parameter
EntryLines(name) == <<Chars(<<name, " ", ":", " ", "int">>), Description>>

RECURSIVE EntriesLines(_)
EntriesLines(names) ==
    IF names = <<>> THEN <<>> ELSE EntryLines(Head(names)) \o EntriesLines(Tail(names))

ParametersLines == <<Chars(<<"Parameters">>), Dashes(10)>>

ReturnsLines ==
    << <<>>, Chars(<<"Returns">>), Dashes(7), Chars(<<"int">>),
       Spaces(4) \o Chars(<<"the", " ", "sum">>) >>

\* the lines at the margin m; empty lines stay empty
AtMargin(lines, m) ==
    [i \in DOMAIN lines |-> IF lines[i] = <<>> THEN <<>> ELSE Spaces(m) \o lines[i]]

Summary == Chars(<<"Summary", ".", "\n", "\n">>)

\* the docstring literal of the shape, closing quotes on a line of their own
DocText(shape) ==
    (IF shape.first THEN Summary ELSE <<"\n">>)
    \o JoinLines(AtMargin(ParametersLines \o EntriesLines(shape.names)
                          \o (IF shape.returns THEN ReturnsLines ELSE <<>>), shape.margin))
    \o Spaces(shape.margin)

\* prose without a Parameters section, with empty lines at its end
Prose == Chars(<<"Adds", " ", "the", " ", "arguments", ".", "\n", "\n", "\n">>)

\* what foo is in SpecDoc: a function or a class, with or without a docstring
DocTargets ==
    LET plain == {PyVal("function", "foo", <<>>, "function", "", <<"a", "b">>),
                  PyVal("class", "foo", <<>>, "", "object", <<"a", "b">>)}
    IN plain \cup {WithDoc(v, d) : v \in plain,
                                   d \in {Prose} \cup {DocText(shape) : shape \in DocShapes}}

\* the configurations of deprecated_args: a alone, with and without
\* remove_version, a and b, a and c
DocArgs ==
    {Some({<<"a", RecA>>}), Some({<<"a", RecB>>}),
     Some({<<"a", RecA>>, <<"b", RecB>>}), Some({<<"a", RecB>>, <<"c", RecA>>})}

DocOptions ==
    Options({<<>>, <<"useless">>}, {V20}, {<<>>, V30}, {NoAction}, {"DeprecationWarning"},
            {None} \cup DocArgs)

\* versionadded and versionchanged take a reason and a version only
VersionOptions ==
    Options({<<>>, <<"useless">>}, {<<>>, V20}, {<<>>}, {NoAction}, {"DeprecationWarning"},
            {None})

\* entity-level decorations that name the directive
Directives == {"versionadded", "versionchanged", "deprecated"}

DirectiveOptions ==
    {SetKey(o, "directive", D) :
        o \in Options({<<>>, <<"useless">>}, {V20}, {<<>>}, {NoAction},
                      {"DeprecationWarning"}, {None}),
        D \in Directives}

InitDoc == InitFrom({<<[action |-> "always", category |-> "Warning"]>>})

DecorateDoc == DecorateFrom({"sphinx"}, DocOptions, DocTargets)

DecorateVersion == DecorateFrom({"versionadded", "versionchanged"}, VersionOptions, DocTargets)

CallDoc == CallFrom({"foo"}, FALSE, {"a"})

DecorateDirective == DecorateFrom({"sphinx"}, DirectiveOptions, DocTargets)

NextDoc == DecorateDoc \/ DecorateVersion \/ DecorateDirective \/ CallDoc

SpecDoc == InitDoc /\ [][NextDoc]_vars

-----------------------------------------------------------------------------
(* SpecThreads: two threads call the decorated function foo at the same      *)
(* time.  The interpreter may switch threads between any two statements, so  *)
(* each statement of wrapper_function and of get_deprecated_msg that reads   *)
(* or writes state shared by the threads (the adapter's argstodeprecate, the *)
(* filter list of the warnings module) is a step of its own.                 *)

Foo == Val(entities["foo"])

\* thread t becomes th, everything but the threads and what is named in the
\* conjunct that follows stays
Step(t, th) == threads' = [threads EXCEPT ![t] = th]

\* where the wrapper goes once msg is known: "if msg:" and the loop over it
AfterMsg(th, msg) ==
    IF ~IsNone(msg) /\ Val(msg) # <<>>
    THEN [th EXCEPT !.msg = msg, !.todo = Val(msg), !.pc = "emit"]
    ELSE [th EXCEPT !.msg = msg, !.pc = "body"]

\* where the wrapper goes once a message is emitted: the next one, or the body
AfterEmit(th) ==
    [th EXCEPT !.todo = Tail(@), !.pc = IF Len(th.todo) > 1 THEN "emit" ELSE "body"]

\* foo(**kwargs) on thread t: wrapt enters wrapper_function
CallThreads ==
    \E t \in Threads :
        /\ decor.status = "done"
        /\ threads[t].pc = "idle"
        /\ Foo.wrapper = "wrapper_function"
        /\ \E kwargs \in KwArgs(Foo, {"a", "b"}) :
              Step(t, [threads[t] EXCEPT !.pc = "msg", !.kwargs = kwargs])
        /\ UNCHANGED <<filters, onceregistry, registry, log, entities, decor, last, ncalls>>

\* get_deprecated_msg up to line 121: without deprecated_args it returns the
\* message of the entity; with them it assigns self.argstodeprecate
AssignThreads ==
    \E t \in Threads :
        /\ threads[t].pc = "msg"
        /\ IF IsNone(Foo.adapter.deprecated_args)
           THEN /\ Step(t, AfterMsg(threads[t],
                                    Some(EntityMsg(Foo.adapter, Foo, InstanceOf(Foo)))))
                /\ UNCHANGED entities
           ELSE /\ Step(t, [threads[t] EXCEPT !.pc = "test"])
                /\ entities' = [entities EXCEPT !["foo"] =
                       Some([Foo EXCEPT !.adapter.argstodeprecate =
                                Keys(Val(Foo.adapter.deprecated_args))
                                    \cap Keys(threads[t].kwargs)])]
        /\ UNCHANGED <<filters, onceregistry, registry, log, decor, last, ncalls>>

\* line 122: if len(self.argstodeprecate) != 0, else name = "" and None is returned
TestThreads ==
    \E t \in Threads :
        /\ threads[t].pc = "test"
        /\ IF Foo.adapter.argstodeprecate # {}
           THEN Step(t, [threads[t] EXCEPT !.pc = "loop"])
           ELSE Step(t, AfterMsg(threads[t], None))
        /\ UNCHANGED <<filters, onceregistry, registry, log, entities, decor, last, ncalls>>

\* lines 123-148: for arg in self.argstodeprecate builds the message of each
\* name of the set as it is now; name is bound by the loop only, so over an
\* empty set "if name ==" is an UnboundLocalError
LoopThreads ==
    \E t \in Threads :
        /\ threads[t].pc = "loop"
        /\ IF Foo.adapter.argstodeprecate = {}
           THEN Step(t, [threads[t] EXCEPT !.pc = "done",
                                           !.exc = Some([type |-> "UnboundLocalError",
                                                         text |-> <<>>])])
           ELSE \E order \in Orders(Foo.adapter.argstodeprecate) :
                   Step(t, AfterMsg(threads[t],
                                    Some([i \in 1..Len(order) |-> ParamMsg(Foo.adapter, order[i])])))
        /\ UNCHANGED <<filters, onceregistry, registry, log, entities, decor, last, ncalls>>

\* lines 226-228: with warnings.catch_warnings() keeps the filter list of the
\* module; simplefilter(action, category) puts the override in front
ApplyThreads ==
    \E t \in Threads :
        /\ threads[t].pc = "emit"
        /\ Truthy(Foo.action)
        /\ Step(t, [threads[t] EXCEPT !.pc = "warn", !.saved = filters])
        /\ filters' = simplefilter(catch_warnings_enter(WState).filters, Foo.action, Foo.category)
        /\ registry' = {}
        /\ UNCHANGED <<onceregistry, log, entities, decor, last, ncalls>>

\* lines 229 and 231: warnings.warn(message, category=category), inside the
\* block when there is an action; an exception leaves the wrapper, through
\* __exit__ when inside the block
WarnThreads ==
    \E t \in Threads :
        /\ \/ threads[t].pc = "warn"
           \/ threads[t].pc = "emit" /\ ~Truthy(Foo.action)
        /\ \E W \in {warn(WState, Head(threads[t].todo).message, Foo.category)} :
              /\ onceregistry' = W.once
              /\ registry' = W.registry
              /\ log' = W.log
              /\ \E th \in {[threads[t] EXCEPT !.emitted = Append(@, Head(threads[t].todo)),
                                                !.exc = W.raised]} :
                    Step(t, IF threads[t].pc = "warn" THEN [th EXCEPT !.pc = "revert"]
                            ELSE IF ~IsNone(W.raised) THEN [th EXCEPT !.pc = "done"]
                            ELSE AfterEmit(th))
        /\ UNCHANGED <<filters, entities, decor, last, ncalls>>

\* the end of the with block: __exit__ puts back the filter list it kept
RevertThreads ==
    \E t \in Threads :
        /\ threads[t].pc = "revert"
        /\ \E W \in {catch_warnings_exit(WState, threads[t].saved)} :
              /\ filters' = W.filters
              /\ registry' = W.registry
        /\ Step(t, IF ~IsNone(threads[t].exc) THEN [threads[t] EXCEPT !.pc = "done"]
                   ELSE AfterEmit(threads[t]))
        /\ UNCHANGED <<onceregistry, log, entities, decor, last, ncalls>>

\* line 232: return wrapped_(*args_, **kwargs_)
BodyThreads ==
    \E t \in Threads :
        /\ threads[t].pc = "body"
        /\ \E b \in {Body(Foo, <<>>, threads[t].kwargs)} :
              Step(t, [threads[t] EXCEPT !.pc = "done", !.exc = b.exc, !.result = b.result])
        /\ UNCHANGED <<filters, onceregistry, registry, log, entities, decor, last, ncalls>>

ThreadTargets == {PyVal("function", "foo", <<>>, "function", "", <<"a", "b">>)}

ThreadAmbient == {<<>>, <<[action |-> "always", category |-> "Warning"]>>}

ThreadOptions ==
    Options({<<>>}, {<<>>}, {<<>>}, {NoAction, "always", "once"}, {"DeprecationWarning"},
            {None, Some({<<"a", RecA>>, <<"b", RecB>>})})

InitThreads == InitFrom(ThreadAmbient)

DecorateThreads == DecorateFrom({"classic"}, ThreadOptions, ThreadTargets)

NextThreads ==
    \/ DecorateThreads
    \/ CallThreads
    \/ AssignThreads
    \/ TestThreads
    \/ LoopThreads
    \/ ApplyThreads
    \/ WarnThreads
    \/ RevertThreads
    \/ BodyThreads

SpecThreads == InitThreads /\ [][NextThreads]_vars

-----------------------------------------------------------------------------
(* SpecSec: docstrings whose Parameters section is followed by further       *)
(* sections, decorated by the sphinx deprecat for one parameter.             *)

\* further: the number of sections after Parameters (Returns, then Examples);
\* hyphen: the description of the returned value has a minus sign; gap: two
\* empty lines, not one, before the last section
SectionShapes ==
    [first : BOOLEAN, margin : {4}, further : 0..2, hyphen : BOOLEAN, gap : BOOLEAN,
     names : {<<"x", "a", "b">>}]

ReturnsWith(hyphen) ==
    << <<>>, Chars(<<"Returns">>), Dashes(7), Chars(<<"int">>),
       Spaces(4) \o Chars(<<"the", " ", "sum", " ", "of", " ", "a">>
                          \o (IF hyphen THEN <<" ", "-", " ", "b">> ELSE <<>>)) >>

ExamplesLines ==
    << <<>>, Chars(<<"Examples">>), Dashes(8),
       Chars(<<"sum", " ", "=", " ", "1", " ", "+", " ", "2">>) >>

\* the lines of the sections after Parameters
FurtherLines(shape) ==
    (IF shape.further = 1 /\ shape.gap THEN << <<>> >> ELSE <<>>)
    \o (IF shape.further >= 1 THEN ReturnsWith(shape.hyphen) ELSE <<>>)
    \o (IF shape.further = 2 /\ shape.gap THEN << <<>> >> ELSE <<>>)
    \o (IF shape.further >= 2 THEN ExamplesLines ELSE <<>>)

\* the docstring literal of the shape, closing quotes on a line of their own
SectionText(shape) ==
    (IF shape.first THEN Summary ELSE <<"\n">>)
    \o JoinLines(AtMargin(ParametersLines \o EntriesLines(shape.names)
                          \o FurtherLines(shape), shape.margin))
    \o Spaces(shape.margin)

SectionTargets ==
    {WithDoc(v, SectionText(shape)) :
        v \in {PyVal("function", "foo", <<>>, "function", "", <<"a", "b">>),
               PyVal("function", "foo", <<>>, "method", "", <<"a", "b">>)},
        shape \in SectionShapes}

\* an entry of deprecated_args with a reason only
RecR == {<<"reason", <<"nothing">> >>}

\* the last parameter of the section, or one before it; an entry with a
\* version, or without one
SectionOptions ==
    Options({<<>>}, {V20}, {<<>>}, {NoAction}, {"DeprecationWarning"},
            {Some({<<"b", RecA>>}), Some({<<"a", RecA>>}), Some({<<"a", RecR>>}),
             Some({<<"a", {}>>})})

InitSec == InitFrom({<<[action |-> "always", category |-> "Warning"]>>})

DecorateSec == DecorateFrom({"sphinx"}, SectionOptions, SectionTargets)

CallSec == CallFrom({"foo"}, FALSE, {"a", "b"})

NextSec == DecorateSec \/ CallSec

SpecSec == InitSec /\ [][NextSec]_vars

-----------------------------------------------------------------------------
(* SpecRef: reasons with Sphinx cross-references, well formed and not, given *)
(* to the sphinx decorator for the entity or for a parameter.                *)

\* :role:BQtextBQ, or :domain:role:BQtextBQ when there is a domain
Ref(domain, role, text) ==
    (IF domain = "" THEN <<>> ELSE <<":", domain>>)
    \o <<":", role, ":", Backtick>> \o text \o <<Backtick>>

WellFormedRefs ==
    {Ref(d, r, x) : d \in {"", "py", "d"}, r \in {"func", "r"},
                    x \in {<<>>, <<"bar">>, <<"~", "bar", ".", "bar">>}}

\* no leading colon, an empty role, an empty role and domain, no closing backtick
MalformedRefs ==
    {<<"r", ":", Backtick, "bar", Backtick>>,
     <<":", ":", Backtick, "bar", Backtick>>,
     <<":", ":", ":", Backtick, "bar", Backtick>>,
     <<":", "func", ":", Backtick, "bar">>}

\* "Use <x> instead"
UseInstead(x) == <<"Use", " ">> \o x \o <<" ", "instead">>

\* "Use <x> and <y> instead"
UseBoth(x, y) == <<"Use", " ">> \o x \o <<" ", "and", " ">> \o y \o <<" ", "instead">>

RefReasons ==
    {UseInstead(x) : x \in WellFormedRefs \cup MalformedRefs}
    \cup {UseBoth(Ref("", "func", <<"bar">>), y) :
             y \in {Ref("py", "func", <<"bar">>), <<":", ":", Backtick, "bar", Backtick>>}}

RefOptions ==
    Options(RefReasons, {V20}, {<<>>}, {NoAction}, {"DeprecationWarning"}, {None})
    \cup Options({<<>>}, {<<>>}, {<<>>}, {NoAction}, {"DeprecationWarning"},
                 {Some({<<"a", {<<"reason", r>>, <<"version", V40>>}>>}) : r \in RefReasons})

InitRef == InitFrom({<<[action |-> "always", category |-> "Warning"]>>})

DecorateRef == DecorateFrom({"sphinx"}, RefOptions, Decoratable)

CallRef == CallFrom({"foo"}, FALSE, {"a"})

NextRef == DecorateRef \/ CallRef

SpecRef == InitRef /\ [][NextRef]_vars

-----------------------------------------------------------------------------
(* SpecNew: instantiations of a decorated class and of its subclasses, with  *)
(* positional and keyword arguments.                                         *)

ClassTargets == {t \in Decoratable : isclass(t)}

NewAmbient == {<<>>, <<[action |-> "always", category |-> "Warning"]>>}

NewOptions ==
    Options({<<>>, <<"nothing">>}, {<<>>, V20}, {<<>>}, {NoAction, "always"}, Categories,
            {None, Some({<<"a", RecA>>})})

InitNew == InitFrom(NewAmbient)

DecorateNew == DecorateFrom({"classic", "sphinx"}, NewOptions, ClassTargets)

Instantiate == InstantiateFrom({""}, TRUE, {"a", "b"})

InstantiateSubclass == InstantiateFrom(Subclasses, TRUE, {"a", "b"})

NextNew == DecorateNew \/ Instantiate \/ InstantiateSubclass

SpecNew == InitNew /\ [][NextNew]_vars

-----------------------------------------------------------------------------
(* Properties.  Each is stated about the most recent call (last), the        *)
(* warnings it recorded and the decoration that produced the entity.         *)

Called == last.name # ""

\* the entity of the most recent call
Callee == Val(entities[last.name])

\* the warnings the most recent call recorded
Recorded == SubSeq(log, last.shownBefore + 1, Len(log))

\* the most recent call ended with a warning raised as an exception
Escalated == ~IsNone(last.exc) /\ Val(last.exc).type \in Categories

EntityLevel(e) == IsNone(e.adapter.deprecated_args)

\* the configured parameter names among the keyword arguments of the call
Used == Keys(Val(Callee.adapter.deprecated_args)) \cap Keys(last.kwargs)

\* what the undecorated entity does with the arguments of the most recent call
Undecorated == Body(Callee, last.args, last.kwargs)

PhraseClass == <<"deprecated", " ", "class">>
PhraseFunction == <<"deprecated", " ", "function", " ", "(", "or", " ", "staticmethod", ")">>
PhraseMethod == <<"deprecated", " ", "method">>
PhraseClassMethod == <<"deprecated", " ", "class", " ", "method">>

\* the phrase by the kind of entity, a class method always being one
PhraseByKind(e) ==
    CASE e.type = "class" -> PhraseClass
      [] e.binding = "method" -> PhraseMethod
      [] e.binding \in {"classmethod", "classmethod38"} -> PhraseClassMethod
      [] OTHER -> PhraseFunction

\* the phrase by the kind of entity, a class method being one only where the
\* interpreter binds it to its class
PhraseByBinding(e) ==
    IF e.binding = "classmethod38" THEN PhraseFunction ELSE PhraseByKind(e)

\* the case of C1: a call of an entity decorated without deprecated_args and
\* without action, under an ambient filter that is "always" for its category
UnderAlways ==
    /\ Called
    /\ EntityLevel(Callee)
    /\ ~Truthy(Callee.action)
    /\ FilterAction(decor.ambient, Callee.category) = "always"

OneWarningWith(phrase) ==
    /\ Len(last.attempts) = 1
    /\ Len(Recorded) = 1
    /\ Recorded[1].category = Callee.category
    /\ Contains(Recorded[1].text, phrase)

\* C1 as stated: every call of an entity decorated without deprecated_args and
\* without action, under an "always" ambient filter, records exactly one warning
\* of the configured category whose text has the phrase of the kind of entity,
\* "deprecated class method" for every class method.
C1_PhraseByKind == UnderAlways => OneWarningWith(PhraseByKind(Callee))

\* C1 amended: the same, the phrase of a class method being "deprecated class
\* method" where the interpreter binds the class (3.9 and later) and "deprecated
\* function (or staticmethod)" under an older interpreter.
C1_OneWarningPerCall == UnderAlways => OneWarningWith(PhraseByBinding(Callee))

\* the second call of a class method decorated with category=MyDeprecationWarning
C1_Witness ==
    /\ UnderAlways
    /\ last.name = "foo" /\ ncalls["foo"] = 2
    /\ Callee.binding = "classmethod"
    /\ Callee.category = "MyDeprecationWarning"
    /\ Len(log) = 2
    /\ Contains(log[2].text, PhraseClassMethod)

\* the entity-level text written out: template, name, then the three clauses
ShapePrefix(e) == <<"Call", " ", "to", " ">> \o PhraseByBinding(e) \o <<" ">>

ExpectedEntityText(e) ==
    ShapePrefix(e) \o <<e.name, ".">>
    \o (IF e.adapter.reason # <<>>
        THEN <<" ", "(">> \o e.adapter.reason \o <<")">> ELSE <<>>)
    \o (IF e.adapter.version # <<>>
        THEN <<"\n", "-", "-", " ", "Deprecated", " ", "since", " ", "version", " ">>
             \o e.adapter.version \o <<".">>
        ELSE <<>>)
    \o (IF e.adapter.remove_version # <<>>
        THEN <<"\n", "-", "-", " ", "Will", " ", "be", " ", "removed", " ", "in", " ",
               "version", " ">> \o e.adapter.remove_version \o <<".">>
        ELSE <<>>)

\* C2: the message of an entity decorated without deprecated_args is the shape
\* template with its name, then " (reason)", the "Deprecated since version"
\* line and the "Will be removed in version" line, in this order, each present
\* exactly when its field is not empty.
C2_EntityMessageFormat ==
    (Called /\ EntityLevel(Callee)) =>
        /\ last.msg = Some(<<[key |-> Callee.name, message |-> ExpectedEntityText(Callee)]>>)
        /\ Len(Recorded) = 1
        /\ Recorded[1].text = ExpectedEntityText(Callee)

\* a method with a reason and a remove_version but no version
C2_Witness ==
    /\ Called /\ EntityLevel(Callee)
    /\ Callee.binding = "method"
    /\ Callee.adapter.reason # <<>>
    /\ Callee.adapter.version = <<>>
    /\ Callee.adapter.remove_version # <<>>
    /\ Len(Recorded) = 1
    /\ Contains(Recorded[1].text, <<"foo", ".", " ", "(", "useless", ")", "\n", "-", "-", " ", "Will">>)

\* the case of C3: a call of a function or method decorated with deprecated_args
ArgLevelCall ==
    /\ Called
    /\ Callee.type = "function"
    /\ ~EntityLevel(Callee)

\* one warnings.warn call for every configured name among the keyword arguments,
\* and no other
OnePerUsedName ==
    /\ Len(last.attempts) = Cardinality(Used)
    /\ \A n \in Used :
          Cardinality({i \in DOMAIN last.attempts :
                          Contains(last.attempts[i].text, <<"Parameter", " ", n, ".">>)}) = 1

\* C3 as stated: every call of a function or method decorated with
\* deprecated_args emits one warning for each configured name among its keyword
\* arguments and no other, and with no such name emits none and runs the function.
C3_EveryCall ==
    ArgLevelCall =>
        /\ OnePerUsedName
        /\ Used = {} => Len(last.invoked) = 1

\* C3 amended: this holds for the calls in which no warning is raised as an
\* exception; a call escalated to an error ends with its first warning.
C3_OneWarningPerUsedName ==
    ArgLevelCall =>
        /\ ~Escalated => OnePerUsedName
        /\ Escalated => Len(last.attempts) = 1 /\ last.invoked = <<>>
        /\ Used = {} => /\ last.attempts = <<>>
                        /\ Len(last.invoked) = 1
                        /\ last.exc = Undecorated.exc
                        /\ last.result = Undecorated.result

\* a method called with both deprecated parameters by keyword
C3_Witness ==
    /\ ArgLevelCall
    /\ Callee.binding = "method"
    /\ Used = {"a", "b"}
    /\ ~Escalated
    /\ Len(last.attempts) = 2
    /\ Len(Recorded) = 2

\* C4: the instantiation of a class decorated with deprecated_args with none of
\* the configured names among the keyword arguments emits no warning, raises
\* nothing in the wrapper and constructs the instance as the undecorated class does.
C4_SilentConstruction ==
    (Called /\ Callee.type = "class" /\ ~EntityLevel(Callee) /\ Used = {}) =>
        /\ last.attempts = <<>>
        /\ last.exc = Undecorated.exc
        /\ last.result = Undecorated.result
        /\ Len(last.invoked) = 2

\* the argument-level text written out, a clause for each field that is not empty
ExpectedParamText(rec, name) ==
    <<"Call", " ", "to", " ", "deprecated", " ", "Parameter", " ", name, ".">>
    \o (IF DGet(rec, "reason", <<>>) # <<>>
        THEN <<" ", "(">> \o DGet(rec, "reason", <<>>) \o <<")">> ELSE <<>>)
    \o (IF DGet(rec, "version", <<>>) # <<>>
        THEN <<"\n", "-", "-", " ", "Deprecated", " ", "since", " ", "v">>
             \o DGet(rec, "version", <<>>) \o <<".">>
        ELSE <<>>)
    \o (IF DGet(rec, "remove_version", <<>>) # <<>>
        THEN <<"\n", "-", "-", " ", "Will", " ", "be", " ", "removed", " ", "in", " ",
               "version", " ">> \o DGet(rec, "remove_version", <<>>) \o <<".">>
        ELSE <<>>)

\* C5: the message of a deprecated parameter used in a call is "Call to
\* deprecated Parameter name." followed by the clauses of its own sub-record, a
\* clause being present exactly when its field is there and not empty.
C5_ParamMessageFormat ==
    ArgLevelCall =>
        /\ Len(Recorded) = Cardinality(Used)
        /\ \A n \in Used : \E i \in DOMAIN Recorded :
              Recorded[i].text =
                  ExpectedParamText(Item(Val(Callee.adapter.deprecated_args), n), n)

\* the decoration through deprecat.sphinx was given no version
SphinxWithoutVersion ==
    /\ decor.status # "pending"
    /\ decor.factory = "sphinx"
    /\ decor.version = <<>>

\* C6 as stated: a decoration through the Sphinx adapter without a version
\* fails with a configuration error.
C6_VersionRequired ==
    SphinxWithoutVersion => (decor.status = "raised" /\ decor.exc # "TypeError")

\* C6 amended: the version is optional; a decoration of a class or function
\* through the Sphinx adapter without a version raises nothing, with or without
\* deprecated_args, and the adapter keeps the empty version.
C6_VersionOptional ==
    (SphinxWithoutVersion /\ decor.target \in {"class", "function"}) =>
        /\ decor.status = "done"
        /\ Val(entities["foo"]).adapter.cls = "SphinxAdapter"
        /\ Val(entities["foo"]).adapter.version = <<>>

\* a function decorated through deprecat.sphinx with deprecated_args and no
\* version, called with the deprecated parameter
C6_Witness ==
    /\ SphinxWithoutVersion
    /\ decor.dargs
    /\ decor.status = "done"
    /\ last.name = "foo" /\ Used = {"a"}
    /\ Len(Recorded) = 1

\* C7: a call of an entity decorated with an action leaves the filter list as
\* it was before the call, whether the call returns or raises; the list stays
\* the ambient one, and every warning of an entity decorated without action is
\* decided by the ambient filter (or by the registry of warnings already shown).
C7_OverrideIsScoped ==
    /\ (Called /\ Truthy(Callee.action)) => filters = last.filtersBefore
    /\ decor.status # "pending" => filters = decor.ambient
    /\ (Called /\ ~Truthy(Callee.action)) =>
          \A i \in DOMAIN last.attempts :
              last.attempts[i].action \in
                  {"registry", FilterAction(decor.ambient, last.attempts[i].category)}

\* foo decorated with action="error" was called (and raised), then bar, decorated
\* without action, is called under the ambient "ignore" filter
C7_Witness ==
    /\ last.name = "bar"
    /\ ncalls["foo"] = 1
    /\ Val(entities["foo"]).action = "error"
    /\ EntityLevel(Val(entities["foo"]))
    /\ FilterAction(decor.ambient, "DeprecationWarning") = "ignore"
    /\ Len(last.attempts) = 1
    /\ last.attempts[1].action = "ignore"
    /\ log = <<>>

\* C8: a call of a decorated function or method that is not escalated to an
\* error invokes the original once, after the warnings, with the arguments of
\* the call, and ends as the original ends.
C8_Delegation ==
    (Called /\ Callee.wrapper = "wrapper_function" /\ ~Escalated) =>
        /\ last.invoked = <<Invocation("body", last.args, last.kwargs, Len(last.attempts))>>
        /\ last.exc = Undecorated.exc
        /\ last.result = Undecorated.result

\* a call with a positional and a keyword argument that warns and returns
C8_Witness ==
    /\ Called /\ Callee.wrapper = "wrapper_function"
    /\ last.args = <<1>>
    /\ Keys(last.kwargs) = {"b"}
    /\ Len(last.attempts) = 1
    /\ ~IsNone(last.result)
    /\ Val(last.result).args = <<1>>

\* C9: a call of an entity decorated with action="ignore" records no warning
\* and raises none, under every ambient filter; when only that entity is
\* called, nothing is recorded at all.
C9_IgnoreRecordsNothing ==
    /\ (Called /\ Callee.action = "ignore") => (Recorded = <<>> /\ ~Escalated)
    /\ \A n \in Names :
          (/\ ~IsNone(entities[n])
           /\ Val(entities[n]).action = "ignore"
           /\ \A m \in Names \ {n} : ncalls[m] = 0) => log = <<>>

\* two calls under an ambient "error" filter
C9_Witness ==
    /\ last.name = "foo" /\ ncalls["foo"] = 2
    /\ Callee.action = "ignore"
    /\ FilterAction(decor.ambient, Callee.category) = "error"
    /\ Len(last.attempts) = 1
    /\ log = <<>>

\* the case of C10: only the entity n was called, two or more times, it has no
\* action and the ambient filter is "once" for its category
CalledTwiceUnderOnce(n) ==
    /\ ~IsNone(entities[n])
    /\ ~Truthy(Val(entities[n]).action)
    /\ FilterAction(decor.ambient, Val(entities[n]).category) = "once"
    /\ ncalls[n] >= 2
    /\ \A m \in Names \ {n} : ncalls[m] = 0

\* C10 as stated: two or more calls of any decorated entity without action under
\* an ambient "once" filter record exactly one warning in total.
C10_AnyEntity ==
    \A n \in Names : CalledTwiceUnderOnce(n) => Len(log) = 1

\* C10 amended: this holds for an entity decorated without deprecated_args; with
\* deprecated_args the calls record one warning for each distinct configured
\* name used, which can be none.
C10_OnceAcrossCalls ==
    \A n \in Names :
        (CalledTwiceUnderOnce(n) /\ EntityLevel(Val(entities[n]))) => Len(log) = 1

\* a class instantiated twice under an ambient "once" filter
C10_Witness ==
    /\ CalledTwiceUnderOnce("foo")
    /\ EntityLevel(Val(entities["foo"]))
    /\ Val(entities["foo"]).type = "class"
    /\ Len(last.attempts) = 1
    /\ Len(log) = 1

\* the decoration statement of foo has run
Decorated == decor.status # "pending"

\* C11: when the argument handed to the decorator factory is neither a string
\* nor a callable (the integer 5), the factory raises TypeError at that call:
\* nothing is wrapped, nothing is bound and no warning is recorded.
C11_TypeErrorForNonCallable ==
    (Decorated /\ decor.target = "int") =>
        /\ decor.status = "raised" /\ decor.exc = "TypeError"
        /\ \A n \in Names : IsNone(entities[n])
        /\ log = <<>>

\* the integer was handed over after options were given (@deprecat(reason=...)(5))
C11_Witness ==
    /\ decor.target = "int" /\ decor.options # Defaults
    /\ decor.status = "raised" /\ decor.exc = "TypeError"

\* C12 as stated: whatever callable is handed to the factory is wrapped and no
\* TypeError is raised: classes, functions, and instances with __call__ alike.
C12_EveryCallable ==
    (Decorated /\ decor.target \in {"class", "function", "callableobj"}) =>
        /\ decor.status = "done"
        /\ Val(entities["foo"]).wrapper \in {"wrapped_cls", "wrapper_function"}

\* C12 amended: a class and a routine are wrapped; a callable that is neither
\* (an instance with __call__, a functools.partial) raises TypeError and nothing
\* is wrapped.
C12_ClassesAndRoutines ==
    /\ (Decorated /\ decor.target \in {"class", "function"}) =>
          /\ decor.status = "done"
          /\ Val(entities["foo"]).wrapper =
                 (IF decor.target = "class" THEN "wrapped_cls" ELSE "wrapper_function")
    /\ (Decorated /\ decor.target = "callableobj") =>
          /\ decor.status = "raised" /\ decor.exc = "TypeError"
          /\ \A n \in Names : IsNone(entities[n])

\* a callable object was refused
C12_Witness ==
    /\ decor.target = "callableobj" /\ decor.status = "raised" /\ decor.exc = "TypeError"

-----------------------------------------------------------------------------
(* Properties of the documentation (SpecDoc)                                 *)

\* foo was decorated by the sphinx deprecat and the decoration returned
SphinxDone == decor.status = "done" /\ decor.factory = "sphinx"

\* the names of the deprecated_args of the decoration
Configured ==
    IF IsNone(decor.options.deprecated_args) THEN {}
    ELSE Keys(Val(decor.options.deprecated_args))

\* the docstring literals of the shapes
DocTexts == [shape \in DocShapes |-> DocText(shape)]

\* the indentation the sections keep after dedent, and what precedes them
Kept(shape) == IF shape.first THEN shape.margin ELSE 0
Lead(shape) == IF shape.first THEN Summary ELSE <<"\n">>

Idx(names, n) == CHOOSE i \in DOMAIN names : names[i] = n

\* the dedented documentation from its start to the end of the description of
\* the i-th entry
TextUpTo(shape, i) ==
    Lead(shape) \o JoinNL(AtMargin(ParametersLines \o EntriesLines(SubSeq(shape.names, 1, i)),
                                   Kept(shape)))

\* the dedented documentation from the entry after the i-th to its end, the
\* trailing newlines being one empty line
TextAfter(shape, i) ==
    LET lines == EntriesLines(SubSeq(shape.names, i + 1, Len(shape.names)))
                 \o (IF shape.returns THEN ReturnsLines ELSE <<>>)
    IN IF lines = <<>> THEN <<>>
       ELSE JoinNL(AtMargin(IF lines[1] = <<>> THEN Tail(lines) ELSE lines, Kept(shape)))
            \o <<"\n", "\n">>

\* the first line of an admonition block at the indentation k, after the empty
\* line that separates it from the description
BlockStart(k) ==
    <<"\n", "\n">> \o Spaces(k + 4)
    \o Chars(<<".", ".", " ", "admonition", ":", ":", " ", "Deprecated", "\n">>)

\* the header line of the admonition of the parameter
BlockHeader(arg) == Chars(<<"Parameter", " ", arg, " ", "deprecated">>)

\* doc is before, an admonition block for arg with an empty line on each side,
\* and after, nothing else
SplicedBetween(doc, before, arg, after, k) ==
    /\ Len(doc) >= Len(before) + Len(BlockStart(k)) + 2 + Len(after)
    /\ UpTo(doc, Len(before)) = before
    /\ MatchAt(doc, Len(before), BlockStart(k))
    /\ From(doc, Len(doc) - Len(after) - 2) = <<"\n", "\n">> \o after
    /\ Find(Slice(doc, Len(before), Len(doc) - Len(after)), BlockHeader(arg)) # -1

SplicedA == [shape \in {sh \in DocShapes : "a" \in Range(sh.names)} |->
                [before |-> TextUpTo(shape, Idx(shape.names, "a")),
                 after |-> TextAfter(shape, Idx(shape.names, "a"))]]

\* C13: for a Parameters section with the entries x, a, b in that order and
\* deprecated_args naming a, the resulting documentation is the dedented
\* original up to the end of a's description, the admonition block, and the
\* dedented original from b's entry on: the block is right after a's
\* description and before b's entry, and the text of the entries of x and b
\* is unchanged.
C13_SplicePosition ==
    (SphinxDone /\ Configured = {"a"}) =>
        \A shape \in DOMAIN SplicedA :
            decor.doc = Some(DocTexts[shape]) =>
                SplicedBetween(Val(Val(entities["foo"]).doc), SplicedA[shape].before, "a",
                               SplicedA[shape].after, Kept(shape))

\* the docstring of the test (the section alone, every line at the margin)
\* with a deprecated since 4.0 and removed in 5.0
C13_Witness ==
    /\ SphinxDone /\ Configured = {"a"} /\ decor.options.reason = <<>>
    /\ decor.options.remove_version = <<>>
    /\ decor.doc = Some(DocTexts[[first |-> FALSE, margin |-> 8, returns |-> FALSE,
                                   names |-> <<"x", "a", "b">>]])
    /\ Val(entities["foo"]).doc =
          Some(<<"\n">> \o JoinLines(
               ParametersLines \o EntryLines("x") \o EntryLines("a")
               \o << <<>>,
                     Chars(<<" ", " ", " ", " ", ".", ".", " ", "admonition", ":", ":", " ",
                             "Deprecated">>),
                     Chars(<<" ", " ", " ", " ", " ", " ", ":", "class", ":", " ", "warning">>),
                     <<>>,
                     Chars(<<" ", " ", " ", " ", " ", " ", "Parameter", " ", "a", " ",
                             "deprecated", " ", "since", " ", "4", ".", "0", " ", "and", " ",
                             "will", " ", "be", " ", "removed", " ", "in", " ", "version", " ",
                             "5", ".", "0", ".">>),
                     <<>> >>
               \o EntryLines("b") \o << <<>> >>))

\* s without the whitespace at its end
RStrip(s) == UpTo(s, Len(s) - SkipSpace([i \in DOMAIN s |-> s[Len(s) + 1 - i]], 0))

\* the offsets at which pat occurs in s
Occurrences(s, pat) == {k \in 0..Len(s) : MatchAt(s, k, pat)}

AdmonitionLine == Chars(<<".", ".", " ", "admonition", ":", ":", " ", "Deprecated", "\n">>)

\* the head of a well-formed admonition block for arg at the indentation k,
\* from its first line to the version of the header
BlockHead(arg, k) ==
    AdmonitionLine
    \o Spaces(k + 6) \o Chars(<<":", "class", ":", " ", "warning", "\n", "\n">>)
    \o Spaces(k + 6) \o BlockHeader(arg) \o Chars(<<" ", "since", " ", "4", ".", "0">>)

\* the lines of the entries of the names, at the indentation k
EntriesText(names, k) == JoinNL(AtMargin(EntriesLines(names), k))

\* doc has exactly two admonition blocks: the first follows, after whitespace
\* only, the text up to the description of a; it runs to the entry of b; the
\* entries of b and c follow unchanged; the second block follows them after
\* whitespace only and belongs to c; each block has its own header and no
\* other
TwoBlocks(doc, shape, k) ==
    LET blocks == Occurrences(doc, AdmonitionLine)
        entryB == Find(doc, <<"\n">> \o Spaces(k) \o Chars(<<"b", " ", ":", " ", "int">>))
        parts(pA, pC) ==
            /\ RStrip(UpTo(doc, pA)) = TextUpTo(shape, 2)
            /\ pA < entryB /\ entryB < pC
            /\ MatchAt(doc, pA, BlockHead("a", k))
            /\ MatchAt(doc, pC, BlockHead("c", k))
            /\ Occurrences(Slice(doc, pA, entryB), BlockHeader("c")) = {}
            /\ Occurrences(From(doc, pC), BlockHeader("a")) = {}
            /\ RStrip(Slice(doc, entryB + 1, pC)) = EntriesText(<<"b", "c">>, k)
            /\ Occurrences(From(doc, pC), Description) = {}
    IN /\ Cardinality(blocks) = 2
       /\ parts(Min(blocks), CHOOSE q \in blocks : q # Min(blocks))

FourEntries == {shape \in DocShapes : shape.names = <<"x", "a", "b", "c">>}

\* C14: with the entries x, a, b, c and deprecated_args naming a and c, the
\* documentation gets exactly two admonition blocks, the one of a after a's
\* description and before b's entry, the one of c after c's description at
\* the end of the section; they do not overlap, the entries of x, a, b and c
\* keep their text, and this is so in either processing order.
C14_TwoBlocks ==
    (SphinxDone /\ Configured = {"a", "c"}) =>
        \A shape \in FourEntries :
            decor.doc = Some(DocTexts[shape]) =>
                TwoBlocks(Val(Val(entities["foo"]).doc), shape, Kept(shape))

\* c was processed before a, in a docstring with a Returns section
C14_Witness ==
    /\ SphinxDone /\ Configured = {"a", "c"} /\ decor.order = <<"c", "a">>
    /\ \E shape \in FourEntries : shape.returns /\ decor.doc = Some(DocTexts[shape])
    /\ Cardinality(Occurrences(Val(Val(entities["foo"]).doc), AdmonitionLine)) = 2

\* the header line of the directive block
DirectiveHeader(directive, version) ==
    Chars(<<".", ".", " ", directive, ":", ":", " ">> \o version \o <<"\n">>)

\* C15: the directive option of the sphinx deprecat selects the directive: with
\* directive=D and a version, the header line appended to the documentation is
\* ".. D:: version"; without the option it is ".. deprecated:: version".
C15_DirectiveSelects ==
    (SphinxDone /\ Configured = {} /\ decor.options.version # <<>>) =>
        Occurrences(Val(Val(entities["foo"]).doc),
                    DirectiveHeader(IF "directive" \in DOMAIN decor.options
                                    THEN decor.options.directive ELSE "deprecated",
                                    decor.options.version)) # {}

\* the decoration recorded one UserWarning with the text for every name in
\* missing, before anything else, and no other UserWarning
Advised(missing, text(_)) ==
    /\ Len(log) >= Cardinality(missing)
    /\ \A n \in missing :
          \E i \in 1..Cardinality(missing) :
              log[i] = [text |-> text(n), category |-> "UserWarning"]
    /\ \A i \in DOMAIN log : log[i].category = "UserWarning" => i <= Cardinality(missing)

\* the documentation has exactly one admonition block for each of the names
\* and none for another
Annotated(doc, names) ==
    /\ Cardinality(Occurrences(doc, AdmonitionLine)) = Cardinality(names)
    /\ \A n \in {"x", "a", "b", "c"} :
          Cardinality(Occurrences(doc, BlockHeader(n))) = (IF n \in names THEN 1 ELSE 0)

\* the configured names that have no entry in a docstring of the shape
Undocumented(shape) == Configured \ Range(shape.names)

\* the sphinx deprecat with deprecated_args was applied to a foo with a docstring
ParamLevelDoc == Decorated /\ decor.factory = "sphinx" /\ Configured # {} /\ ~IsNone(decor.doc)

\* C16: mismatches between deprecated_args and the documentation are not
\* fatal.  Without a Parameters section the decoration completes, inserts no
\* admonition and records a UserWarning for every configured name; with a
\* section that lacks the entry of a configured name it completes, records a
\* UserWarning for that name, inserts no admonition for it and still
\* annotates every configured name that has an entry.  The calls that use a
\* configured name still record its deprecation warning.
C16_MismatchIsNotFatal ==
    /\ (ParamLevelDoc /\ decor.doc = Some(Prose)) =>
          /\ decor.status = "done"
          /\ Val(entities["foo"]).doc = Some(RStrip(Prose) \o <<"\n", "\n">>)
          /\ Advised(Configured, LAMBDA n : MissingParameterSection)
    /\ ParamLevelDoc =>
          \A shape \in DocShapes :
              (decor.doc = Some(DocTexts[shape]) /\ Undocumented(shape) # {}) =>
                  /\ decor.status = "done"
                  /\ Advised(Undocumented(shape), MissingDescription)
                  /\ Annotated(Val(Val(entities["foo"]).doc), Configured \ Undocumented(shape))
    /\ (ParamLevelDoc /\ Called /\ Used # {}) =>
          /\ Len(Recorded) = Cardinality(Used)
          /\ \A i \in DOMAIN Recorded :
                /\ Recorded[i].category = "DeprecationWarning"
                /\ \E n \in Used : Contains(Recorded[i].text, <<"Parameter", " ", n, ".">>)

\* the section has no entry for a but one for b; foo(a=1) was then called
C16_Witness ==
    /\ ParamLevelDoc /\ Configured = {"a", "b"}
    /\ \E shape \in DocShapes : /\ decor.doc = Some(DocTexts[shape])
                                 /\ Undocumented(shape) = {"a"}
    /\ log[1] = [text |-> MissingDescription("a"), category |-> "UserWarning"]
    /\ Annotated(Val(Val(entities["foo"]).doc), {"b"})
    /\ Called /\ Used = {"a"} /\ Len(Recorded) = 1

\* the documentation of a shape written out as it is after dedent, without
\* the newlines and blanks at its end
NormalTexts ==
    [shape \in DocShapes |->
        Lead(shape) \o JoinNL(AtMargin(ParametersLines \o EntriesLines(shape.names)
                                       \o (IF shape.returns THEN ReturnsLines ELSE <<>>),
                                       Kept(shape)))]

\* the directive block written out for a reason of one short line: the header
\* with the version if there is one, the reason, and the removal warning as a
\* paragraph of its own, the lines after the header indented by three blanks
ExpectedBlock(directive, reason, version, remove_version) ==
    JoinLines(
        <<Chars(<<".", ".", " ", directive, ":", ":">>
                \o (IF version # <<>> THEN <<" ">> \o version ELSE <<>>))>>
        \o (IF reason # <<>> THEN <<Spaces(3) \o Chars(reason)>> ELSE <<>>)
        \o (IF reason # <<>> /\ remove_version # <<>> THEN << <<>> >> ELSE <<>>)
        \o (IF remove_version # <<>>
            THEN <<Spaces(3) \o Chars(<<"Warning", ":", " ", "This", " ", "deprecated", " ",
                                        "feature", " ", "will", " ", "be", " ", "removed", " ",
                                        "in", " ", "version", " ">> \o remove_version)>>
            ELSE <<>>))

\* an entity-level decoration by one of the documentation decorators returned
EntityLevelDoc ==
    /\ decor.status = "done"
    /\ decor.factory \in {"sphinx", "versionadded", "versionchanged"}
    /\ Configured = {}

\* the directive block of the decoration
BlockOfDecoration ==
    ExpectedBlock(Val(entities["foo"]).adapter.directive, decor.options.reason,
                  decor.options.version, decor.options.remove_version)

\* C17: after an entity-level decoration the documentation is the dedented
\* original without its trailing newlines, one empty line and the directive
\* block; for an entity without documentation it is one newline and the
\* directive block.
C17_EntityLevelText ==
    EntityLevelDoc =>
        /\ IsNone(decor.doc) =>
              Val(entities["foo"]).doc = Some(<<"\n">> \o BlockOfDecoration)
        /\ decor.doc = Some(Prose) =>
              Val(entities["foo"]).doc =
                 Some(Chars(<<"Adds", " ", "the", " ", "arguments", ".", "\n", "\n">>)
                      \o BlockOfDecoration)
        /\ \A shape \in DocShapes :
              decor.doc = Some(DocTexts[shape]) =>
                  Val(entities["foo"]).doc =
                     Some(NormalTexts[shape] \o <<"\n", "\n">> \o BlockOfDecoration)

\* prose that ends with three newlines, a reason, a version and a removal
C17_Witness ==
    /\ EntityLevelDoc /\ decor.factory = "sphinx" /\ decor.doc = Some(Prose)
    /\ Val(entities["foo"]).doc =
          Some(Chars(<<"Adds", " ", "the", " ", "arguments", ".", "\n", "\n",
                       ".", ".", " ", "deprecated", ":", ":", " ", "2", ".", "0", "\n",
                       " ", " ", " ", "useless", "\n", "\n",
                       " ", " ", " ", "Warning", ":", " ", "This", " ", "deprecated", " ",
                       "feature", " ", "will", " ", "be", " ", "removed", " ", "in", " ",
                       "version", " ", "3", ".", "0", "\n">>))

\* foo was decorated with versionadded or versionchanged
VersionDone == decor.status = "done" /\ decor.factory \in {"versionadded", "versionchanged"}

\* C18: an entity decorated with versionadded or versionchanged has the
\* block of that directive at the end of its documentation and is not
\* wrapped: its calls and instantiations never emit a warning and do what the
\* undecorated entity does.  Decorated with the sphinx deprecat (without
\* deprecated_args, under a filter that shows every warning) it records
\* exactly one DeprecationWarning in every call.
C18_VersionNeverWarns ==
    /\ VersionDone =>
          /\ Val(entities["foo"]).wrapper = "none"
          /\ Val(entities["foo"]).adapter.directive = decor.factory
          /\ From(Val(Val(entities["foo"]).doc),
                  Len(Val(Val(entities["foo"]).doc)) - Len(BlockOfDecoration))
                 = BlockOfDecoration
          /\ log = <<>>
          /\ Called => /\ last.attempts = <<>>
                       /\ last.exc = Undecorated.exc
                       /\ last.result = Undecorated.result
    /\ (SphinxDone /\ Configured = {} /\ Called) =>
          /\ Len(Recorded) = 1
          /\ Recorded[1].category = "DeprecationWarning"
          /\ Len(log) = ncalls["foo"]

\* a class with a docstring decorated with versionchanged and instantiated twice
C18_Witness ==
    /\ VersionDone /\ decor.factory = "versionchanged" /\ decor.target = "class"
    /\ ~IsNone(decor.doc)
    /\ ncalls["foo"] = 2 /\ log = <<>>
    /\ ~IsNone(last.result)

StartsWith(t, p) == Len(t) >= Len(p) /\ SubSeq(t, 1, Len(p)) = p

\* "Call to deprecated class ", "... function (or staticmethod) ", "... method ",
\* "... class method "
EntityPrefixes ==
    {<<"Call", " ", "to", " ">> \o ph \o <<" ">> :
        ph \in {PhraseClass, PhraseFunction, PhraseMethod, PhraseClassMethod}}

ParameterPrefix == <<"Call", " ", "to", " ", "deprecated", " ", "Parameter", " ">>

IsEntityMessage(m) == \E p \in EntityPrefixes : StartsWith(m, p)
IsParameterMessage(m) == StartsWith(m, ParameterPrefix)

\* C20: the messages of a call are of one level, fixed by the configuration.
\* An adapter configured with deprecated_args returns no message or messages
\* of parameters only ("Call to deprecated Parameter ..."), never the message
\* of the entity; an adapter configured without deprecated_args returns
\* exactly one message, that of the entity ("Call to deprecated class /
\* function (or staticmethod) / method / class method ..."), never one of a
\* parameter.
C20_OneLevelPerConfiguration ==
    Called =>
        IF EntityLevel(Callee)
        THEN /\ ~IsNone(last.msg)
             /\ Len(Val(last.msg)) = 1
             /\ IsEntityMessage(Val(last.msg)[1].message)
             /\ ~IsParameterMessage(Val(last.msg)[1].message)
        ELSE \/ IsNone(last.msg)
             \/ \A i \in DOMAIN Val(last.msg) :
                    /\ IsParameterMessage(Val(last.msg)[i].message)
                    /\ ~IsEntityMessage(Val(last.msg)[i].message)

\* a call with a deprecated keyword argument, which returned the message of
\* the parameter alone
C20_Witness ==
    /\ Called /\ ~EntityLevel(Callee)
    /\ Used = {"a"}
    /\ ~IsNone(last.msg)
    /\ Len(Val(last.msg)) = 1
    /\ IsParameterMessage(Val(last.msg)[1].message)

-----------------------------------------------------------------------------
(* Properties of the instantiations (SpecNew)                                *)

\* the most recent instantiation went through a subclass that reaches the
\* __new__ of the decorated class
ThroughSubclass == Called /\ last.via \in {"inherits", "super"}

HadMessage == Called /\ ~IsNone(last.msg) /\ Val(last.msg) # <<>>

\* C28: with action "error", a call that has a message to emit raises the
\* category of the decorator, with the first message, before anything is
\* delegated: the function body (or the construction) does not run, nothing is
\* recorded, and no second warning is attempted when several deprecated
\* parameters are given; a call of a function that has no message runs the
\* function as if it were not decorated.
C28_ErrorEscalates ==
    (Called /\ Callee.action = "error") =>
        /\ HadMessage =>
              /\ last.exc = Exc(Callee.category, Val(last.msg)[1].message)
              /\ last.invoked = <<>>
              /\ IsNone(last.result)
              /\ Len(last.attempts) = 1
              /\ Recorded = <<>>
        /\ (~HadMessage /\ ~isclass(Callee)) =>
              /\ last.attempts = <<>>
              /\ last.exc = Undecorated.exc
              /\ last.result = Undecorated.result
              /\ Len(last.invoked) = 1

\* a function decorated with action "error" for a and b, called with both by
\* keyword under an ambient filter that shows every warning: the first
\* message is raised and the body does not run
C28_Witness ==
    /\ Called /\ Callee.action = "error" /\ Callee.type = "function"
    /\ ~EntityLevel(Callee)
    /\ Used = {"a", "b"}
    /\ FilterAction(decor.ambient, Callee.category) = "always"
    /\ Len(Val(last.msg)) = 2
    /\ last.exc = Exc("DeprecationWarning", Val(last.msg)[1].message)
    /\ last.invoked = <<>>

-----------------------------------------------------------------------------
(* Properties of the messages with cross-references (SpecRef)                *)

\* the text of a well-formed reference: from its first backtick on
RefText(ref) == SubSeq(ref, BacktickEnd(ref, 1), Len(ref))

\* the reason as the message must show it: each well-formed reference by its
\* text between backticks, everything else as written
RECURSIVE ShownReason(_)
ShownReason(reason) ==
    IF reason = <<>> THEN <<>>
    ELSE LET refs == {k \in 1..Len(reason) : SubSeq(reason, 1, k) \in WellFormedRefs}
         IN IF refs # {}
            THEN LET k == CHOOSE x \in refs : TRUE
                 IN RefText(SubSeq(reason, 1, k)) \o ShownReason(SubSeq(reason, k + 1, Len(reason)))
            ELSE <<Head(reason)>> \o ShownReason(Tail(reason))

ShownReasons == [r \in RefReasons |-> ShownReason(r)]

\* the reason this decoration was configured with (of the entity or of a)
ConfiguredReason ==
    IF EntityLevel(Callee) THEN Callee.adapter.reason
    ELSE DGet(Item(Val(Callee.adapter.deprecated_args), "a"), "reason", <<>>)

\* C21: the messages of the sphinx adapter show every well-formed reference
\* (:role: or :domain:role: before a text between backticks, the text possibly
\* empty) as the text between backticks alone and leave a malformed one as
\* written; a call for which the adapter has no message gets none and fails in
\* no way the undecorated function would not.
C21_ReferencesStripped ==
    (Called /\ Callee.adapter.cls = "SphinxAdapter") =>
        /\ EntityLevel(Callee) =>
              /\ Len(Val(last.msg)) = 1
              /\ Val(last.msg)[1].message =
                    ExpectedEntityText([Callee EXCEPT
                        !.adapter.reason = ShownReasons[ConfiguredReason]])
              /\ \A x \in MalformedRefs : ConfiguredReason = UseInstead(x) =>
                    Contains(Val(last.msg)[1].message, UseInstead(x))
        /\ (~EntityLevel(Callee) /\ Used # {}) =>
              /\ Len(Val(last.msg)) = 1
              /\ Val(last.msg)[1].message =
                    ExpectedParamText({<<"reason", ShownReasons[ConfiguredReason]>>,
                                       <<"version", V40>>}, "a")
        /\ (~EntityLevel(Callee) /\ Used = {}) =>
              /\ IsNone(last.msg)
              /\ last.attempts = <<>>
              /\ ~isclass(Callee) =>
                    (last.exc = Undecorated.exc /\ last.result = Undecorated.result)

\* a call whose warning shows "Use BQbarBQ instead" for the reason
\* "Use :py:func:BQbarBQ instead"
C21_Witness ==
    /\ Called /\ EntityLevel(Callee)
    /\ Callee.adapter.reason = UseInstead(Ref("py", "func", <<"bar">>))
    /\ Len(Recorded) = 1
    /\ Contains(Recorded[1].text, UseInstead(<<Backtick, "bar", Backtick>>))

-----------------------------------------------------------------------------
(* Properties of the end of the Parameters section (SpecSec)                 *)

SectionTexts == [shape \in SectionShapes |-> SectionText(shape)]

\* s without the whitespace at its start
LStrip(s) == From(s, SkipSpace(s, 0))

\* the dedented documentation from its start to the end of the description of
\* the last entry
SectionBefore(shape) ==
    Lead(shape) \o JoinNL(AtMargin(ParametersLines \o EntriesLines(shape.names), Kept(shape)))

\* the dedented documentation from the header of the section after Parameters
\* to its end, the trailing newlines being one empty line
SectionAfter(shape) ==
    LStrip(JoinNL(AtMargin(FurtherLines(shape), Kept(shape)))) \o <<"\n", "\n">>

\* doc is, spaces and newlines between the parts apart: the original up to the
\* end of the last description, one admonition block for arg, the original
\* from the header of the next section on
LastThenSections(doc, shape, arg) ==
    LET blocks == Occurrences(doc, AdmonitionLine)
        parts(p, after) ==
            /\ RStrip(UpTo(doc, p)) = SectionBefore(shape)
            /\ Len(doc) >= p + Len(after)
            /\ From(doc, Len(doc) - Len(after)) = after
            /\ RStrip(Slice(doc, p, Len(doc) - Len(after))) = BlockHead(arg, Kept(shape))
    IN /\ Cardinality(blocks) = 1
       /\ parts(Min(blocks), SectionAfter(shape))

\* C22: when further sections follow the Parameters section, the admonition
\* of the last parameter of the section (b) is after b's complete description
\* and before the header of the next section, the text on both sides being
\* the original, for one or two further sections and with or without a minus
\* sign in the text that follows.
C22_LastBeforeNextSection ==
    (SphinxDone /\ Configured = {"b"}) =>
        \A shape \in SectionShapes :
            (shape.further >= 1 /\ decor.doc = Some(SectionTexts[shape])) =>
                LastThenSections(Val(Val(entities["foo"]).doc), shape, "b")

-----------------------------------------------------------------------------
(* Properties of concurrent calls (SpecThreads)                              *)

\* thread t has returned from its call of foo, or left it by an exception
Returned(t) == threads[t].pc = "done"

\* the names of the messages thread t gave to warnings.warn
EmittedFor(t) == {threads[t].emitted[i].key : i \in DOMAIN threads[t].emitted}

\* C23: when two threads call the same function decorated with
\* deprecated_args at the same time, each call emits the warnings of exactly
\* the deprecated keyword arguments it was itself given, and ends as the
\* function ends, whatever the other call does.
C23_CallsAreIndependent ==
    \A t \in Threads :
        (Returned(t) /\ ~EntityLevel(Foo)) =>
            /\ EmittedFor(t) = Keys(Val(Foo.adapter.deprecated_args)) \cap Keys(threads[t].kwargs)
            /\ threads[t].exc = Body(Foo, <<>>, threads[t].kwargs).exc
            /\ threads[t].result = Body(Foo, <<>>, threads[t].kwargs).result

\* C26: when two threads call an entity decorated with an action at the same
\* time, then once both calls have ended the filter list of the warnings
\* module is what it was before either began, whatever the order of their
\* steps.
C26_OverrideCannotRace ==
    (Decorated /\ \A t \in Threads : Returned(t)) => filters = decor.ambient

\* the entry of deprecated_args for a has no version
Versionless ==
    /\ Configured = {"a"}
    /\ "version" \notin Keys(Item(Val(decor.options.deprecated_args), "a"))

\* C24: decorating through the sphinx deprecat a function whose docstring
\* documents a, with an entry for a in deprecated_args that has no version,
\* succeeds, and the documentation gets one admonition whose header line is
\* "Parameter a deprecated" with nothing after it.
C24_VersionlessEntry ==
    (Decorated /\ decor.factory = "sphinx" /\ Versionless) =>
        /\ decor.status = "done"
        /\ Cardinality(Occurrences(Val(Val(entities["foo"]).doc), AdmonitionLine)) = 1
        /\ Occurrences(Val(Val(entities["foo"]).doc), BlockHeader("a") \o <<"\n">>) # {}

\* the end of the line that starts at or after the offset k
LineEnd(s, k) == k + Find(From(s, k), <<"\n">>)

\* doc is the text original with one block for arg put in: what precedes the
\* block and what follows its header line are, the spaces and newlines next
\* to the block apart, the start and the end of original, and nothing of
\* original but spaces and newlines is missing between them
OnlyInserted(doc, original, arg) ==
    LET parts(pre, post) ==
            /\ Len(pre) + Len(post) <= Len(original)
            /\ UpTo(original, Len(pre)) = pre
            /\ From(original, Len(original) - Len(post)) = post
            /\ \A i \in (Len(pre) + 1)..(Len(original) - Len(post)) : IsSpace(original[i])
    IN /\ Cardinality(Occurrences(doc, AdmonitionLine)) = 1
       /\ parts(RStrip(UpTo(doc, Min(Occurrences(doc, AdmonitionLine)))),
                LStrip(From(doc, LineEnd(doc, Find(doc, BlockHeader(arg))))))

\* C25: splicing the admonition of a parameter only inserts.  The block and
\* the empty lines next to it apart, the documentation is the dedented
\* original with its trailing newlines normalised, character for character:
\* a run of three or more newlines elsewhere in it is left as it was.
C25_OnlyInserts ==
    (SphinxDone /\ Configured = {"a"} /\ ~Versionless) =>
        OnlyInserted(Val(Val(entities["foo"]).doc), PrepareDocstring(decor.doc), "a")

-----------------------------------------------------------------------------
(* Properties of the blocks of several parameters (SpecDoc)                  *)

\* the start of the sentence that announces the removal of the entity
RemovalNotice == Chars(<<"Warning", ":", " ", "This", " ", "deprecated", " ", "feature">>)

\* the text of the block of arg in doc: from its header line to the next
\* admonition, or to the end of doc
BlockText(doc, arg) ==
    LET from(h) ==
            LET next == {k \in Occurrences(doc, AdmonitionLine) : k > h}
            IN Slice(doc, h, IF next = {} THEN Len(doc) ELSE Min(next))
    IN from(Find(doc, BlockHeader(arg)))

\* the parameters that got a block
WithBlock(doc) == {arg \in Configured : Find(doc, BlockHeader(arg)) # -1}

\* C27: the blocks of two deprecated parameters do not depend on the order in
\* which the names are processed: each block has the content it has when its
\* parameter is deprecated alone, in particular the sentence that announces
\* the removal of the entity once when the decorator has a remove_version
\* (and not at all otherwise), whichever name was processed first.
C27_OrderIndependent ==
    (SphinxDone /\ Cardinality(Configured) = 2) =>
        \A arg \in WithBlock(Val(Val(entities["foo"]).doc)) :
            Cardinality(Occurrences(BlockText(Val(Val(entities["foo"]).doc), arg),
                                    RemovalNotice))
                = (IF decor.options.remove_version # <<>> THEN 1 ELSE 0)

\* a is deprecated alone, by an entry that has a reason of its own ("nothing")
OwnReason == SphinxDone /\ decor.options.deprecated_args = Some({<<"a", RecA>>})

\* the block of a in doc, between the original up to a's description and the
\* original from the next entry on
BlockRegion(doc, shape) ==
    Slice(doc, Min(Occurrences(doc, AdmonitionLine)), Len(doc) - Len(SplicedA[shape].after))

\* the block of a is its head, ending with the header line, and nothing more
HeaderOnly(doc, shape) == RStrip(BlockRegion(doc, shape)) = BlockHead("a", Kept(shape))

\* the block of a has the reason of the decorator exactly when there is one,
\* and the documentation has the reason of the entry nowhere
ReasonOfEntity(doc, shape) ==
    /\ Occurrences(doc, Chars(<<"nothing">>)) = {}
    /\ (Occurrences(BlockRegion(doc, shape), Chars(<<"useless">>)) # {})
          <=> (decor.options.reason = <<"useless">>)

\* the warning of a call that gives a has the reason of the entry
OwnReasonInWarning ==
    (Called /\ Used = {"a"}) =>
        /\ Len(Recorded) = 1
        /\ Contains(Recorded[1].text, <<"(", "nothing", ")">>)

\* C29 as stated: the block of a deprecated parameter has, after its header,
\* the reason of the decorator and never the reason of the parameter's own
\* entry, so that with an empty reason of the decorator the block is the
\* header alone; the reason of the entry is in the warning of the calls.
C29_HeaderOnlyWithoutReason ==
    OwnReason =>
        /\ \A shape \in DOMAIN SplicedA :
              decor.doc = Some(DocTexts[shape]) =>
                  /\ ReasonOfEntity(Val(Val(entities["foo"]).doc), shape)
                  /\ decor.options.reason = <<>> =>
                        HeaderOnly(Val(Val(entities["foo"]).doc), shape)
        /\ OwnReasonInWarning

\* C29 amended: the block is the header alone when the decorator has neither
\* a reason nor a remove_version (a remove_version adds the sentence that
\* announces the removal of the entity); the rest as stated.
C29_EntityReasonInBlock ==
    OwnReason =>
        /\ \A shape \in DOMAIN SplicedA :
              decor.doc = Some(DocTexts[shape]) =>
                  /\ ReasonOfEntity(Val(Val(entities["foo"]).doc), shape)
                  /\ (decor.options.reason = <<>> /\ decor.options.remove_version = <<>>) =>
                        HeaderOnly(Val(Val(entities["foo"]).doc), shape)
        /\ OwnReasonInWarning

\* the docstring of the test, a deprecated with the reason "nothing" by a
\* decorator without reason: the block is the header alone, and the call
\* foo(a=1) warns with "(nothing)"
C29_Witness ==
    /\ OwnReason
    /\ decor.options.reason = <<>> /\ decor.options.remove_version = <<>>
    /\ decor.doc = Some(DocTexts[[first |-> FALSE, margin |-> 8, returns |-> FALSE,
                                   names |-> <<"x", "a", "b">>]])
    /\ HeaderOnly(Val(Val(entities["foo"]).doc),
                  [first |-> FALSE, margin |-> 8, returns |-> FALSE, names |-> <<"x", "a", "b">>])
    /\ Called /\ Used = {"a"}
    /\ Contains(Recorded[1].text, <<"(", "nothing", ")">>)

====
